---- MODULE Spec2Model ----
(***************************************************************************)
(* Kharazmichi bot: the rate limiter (services/rate_limiter.py over        *)
(* UsageLogRepository), the auth gate (services/auth.py over               *)
(* UserRepository), the knowledge service (services/knowledge_base.py over *)
(* KnowledgeRepository), the conversation agent (services/ai_agent.py) and *)
(* the message handlers that run a text or voice message through them      *)
(* (bot/handlers.py, services/voice.py), as state machines over the store  *)
(* tables they use.                                                        *)
(*                                                                         *)
(* Every repository method wraps its store call in try/except and turns an *)
(* exception into a default (0, None, [], False).  Each store call         *)
(* therefore takes a boolean input `ok`: TRUE when the call goes through,  *)
(* FALSE when it raises; at most MaxFaults calls on the users and          *)
(* usage_logs tables raise in one run.  A call of a rate limiter, auth or  *)
(* knowledge service method is one atomic action (the callers are          *)
(* sequential here) and the clock does not advance within it.  A chat call *)
(* of the agent is a sequence of steps, one per model call and per tool    *)
(* call, each taking what the model or the knowledge search answers as its *)
(* input.  A handled message is one atomic action that records the calls   *)
(* the handler made, in order, each with whether it returned or raised.    *)
(* The conversation store (ConversationRepository) is modelled the same    *)
(* way.  Calls that overlap, on the usage log, the users table and the     *)
(* conversation store, are modelled by tasks that each take one store call *)
(* per step.                                                               *)
(* Pure functions are also checked on their own, from initial states that  *)
(* draw the argument.                                                      *)
(***************************************************************************)
EXTENDS Integers, Sequences, FiniteSets, TLC

VARIABLES
    now,            \* the UTC clock, in ticks; DayLen ticks make one day
    usage_logs,     \* table "usage_logs": sequence of rows, in insertion order
    rl_last,        \* what the last rate limiter call did and returned
    allowedToday,   \* history: calls answered allowed=True per user, this UTC day
    storeFaults,    \* history: usage_logs store calls that have raised
    users,          \* table "users": sequence of rows, in insertion order
    auth_last,      \* what the last auth call did and returned
    authFaults,     \* history: users store calls that have raised
    call,           \* a pure function under check: its name and argument
    ret,            \* ... and what it returned
    agent,          \* AIAgent.chat: the call in progress, and its record
    outbox,         \* what the message handler sent to the chat
    kb,             \* table "knowledge_embeddings" and the last service call
    turn,           \* the message handler: the inbound message last handled
    conv,           \* table "conversations" and the record of what was appended
    tasks           \* calls in progress at the same time, each at its next store call

rlVars == <<now, usage_logs, rl_last, allowedToday, storeFaults>>
authVars == <<users, auth_last, authFaults>>
fnVars == <<call, ret>>
agentVars == <<agent, outbox>>
kbVars == <<kb>>
turnVars == <<turn>>
convVars == <<conv>>
taskVars == <<tasks>>
vars == <<now, usage_logs, rl_last, allowedToday, storeFaults,
          users, auth_last, authFaults, call, ret, agent, outbox, kb, turn,
          conv, tasks>>

----------------------------------------------------------------------------
(* Bounds of the model *)

\* chat identifiers 1..NumUsers
NumUsers == 2
\* the clock runs 0..MaxTime
MaxTime == 2
\* ticks per UTC day (24 h scaled down)
DayLen == 2
\* rows the usage_logs table may hold
MaxLogs == 3
\* store calls that may raise in one run
MaxFaults == 1
\* settings.rate_limit_per_day (config.py: default 20, any value in 1..1000)
rate_limit_per_day == 2

TelegramIds == 1..NumUsers

\* message_text[:500]
ExcerptLen == 500

\* Optional[str] None
NoText == -1

\* the message texts check_and_log is called with, by length: one longer than
\* the excerpt (NoText stands for None)
TextInputs == {ExcerptLen + 1}

\* 1 for a store call that raises
Fails(ok) == IF ok THEN 0 ELSE 1

Max(a, b) == IF a >= b THEN a ELSE b
Min(a, b) == IF a <= b THEN a ELSE b

----------------------------------------------------------------------------
(* UsageLogRepository *)

\* datetime.now(utc).replace(hour=0, minute=0, second=0, microsecond=0)
today_start(t) == t - (t % DayLen)

\* the rows the count query selects: .eq(telegram_id).gte(created_at, today_start)
TodayRows(logs, t, telegram_id) ==
    {i \in DOMAIN logs : /\ logs[i].telegram_id = telegram_id
                         /\ logs[i].created_at >= today_start(t)}

\* get_today_count: response.count or 0; 0 when the query raises
M_get_today_count_all(logs, t, telegram_id, ok) ==
    IF ok THEN Cardinality({i \in DOMAIN logs : logs[i].telegram_id = telegram_id})
    ELSE 0

get_today_count(logs, t, telegram_id, ok) ==
    IF ok THEN Cardinality(TodayRows(logs, t, telegram_id)) ELSE 0

\* UsageLogCreate built by check_and_log: message_text[:500] if message_text else None
UsageLogCreate(telegram_id, message_text) ==
    [telegram_id |-> telegram_id,
     message_text |-> IF message_text = NoText \/ message_text = 0
                      THEN NoText
                      ELSE Min(message_text, ExcerptLen)]

\* log_usage: the insert adds a row stamped by the store; nothing when it raises
log_usage(logs, t, log_data, ok) ==
    IF ok
    THEN Append(logs, [telegram_id |-> log_data.telegram_id,
                       message_text |-> log_data.message_text,
                       created_at |-> t])
    ELSE logs

\* is_rate_limited: count >= settings.rate_limit_per_day
M_is_rate_limited_gt(logs, t, telegram_id, ok) ==
    get_today_count(logs, t, telegram_id, ok) > rate_limit_per_day

is_rate_limited(logs, t, telegram_id, ok) ==
    get_today_count(logs, t, telegram_id, ok) >= rate_limit_per_day

\* get_remaining_messages: max(0, limit - count)
get_remaining_messages(logs, t, telegram_id, ok) ==
    Max(0, rate_limit_per_day - get_today_count(logs, t, telegram_id, ok))

----------------------------------------------------------------------------
(* RateLimiter *)

\* get_status: (used, remaining) with remaining = max(0, limit - used)
M_get_status_nomax(logs, t, telegram_id, ok) ==
    LET used == get_today_count(logs, t, telegram_id, ok)
    IN  [used |-> used, remaining |-> rate_limit_per_day - used]

get_status(logs, t, telegram_id, ok) ==
    LET used == get_today_count(logs, t, telegram_id, ok)
    IN  [used |-> used, remaining |-> Max(0, rate_limit_per_day - used)]

\* check_and_log: is_rate_limited, then log_usage, then get_remaining_messages;
\* okCount, okInsert, okRemain say whether each of the three store calls goes
\* through. The step is what the call does to the usage log and what it returns
CheckAndLogStep(telegram_id, message_text, okCount, okInsert, okRemain) ==
    LET limited == is_rate_limited(usage_logs, now, telegram_id, okCount)
        logged  == log_usage(usage_logs, now,
                             UsageLogCreate(telegram_id, message_text), okInsert)
        raised  == Fails(okCount)
                     + (IF limited THEN 0 ELSE Fails(okInsert) + Fails(okRemain))
    IN  /\ storeFaults + Fails(okCount) + Fails(okInsert) + Fails(okRemain)
              <= MaxFaults
        /\ Len(usage_logs) < MaxLogs
        /\ IF limited
           THEN /\ usage_logs' = usage_logs
                /\ allowedToday' = allowedToday
                /\ storeFaults' = storeFaults + raised
                /\ rl_last' = [op |-> "check_and_log", telegram_id |-> telegram_id,
                               allowed |-> FALSE, remaining |-> 0, used |-> 0,
                               appended |-> FALSE,
                               allowedBefore |-> allowedToday[telegram_id]]
           ELSE /\ usage_logs' = logged
                /\ allowedToday' =
                     [allowedToday EXCEPT ![telegram_id] = @ + 1]
                /\ storeFaults' = storeFaults + raised
                /\ rl_last' = [op |-> "check_and_log", telegram_id |-> telegram_id,
                               allowed |-> TRUE,
                               remaining |-> get_remaining_messages(
                                                 logged, now, telegram_id, okRemain),
                               used |-> 0,
                               appended |-> (logged # usage_logs),
                               allowedBefore |-> allowedToday[telegram_id]]

\* a call of check_and_log on its own
CheckAndLog(telegram_id, message_text, okCount, okInsert, okRemain) ==
    /\ CheckAndLogStep(telegram_id, message_text, okCount, okInsert, okRemain)
    /\ UNCHANGED <<now, users, auth_last, authFaults>>
    /\ UNCHANGED <<fnVars, agentVars, kbVars, turnVars, convVars, taskVars>>

\* get_status: a read; only the returned pair is recorded
GetStatus(telegram_id, ok) ==
    LET st == get_status(usage_logs, now, telegram_id, ok)
    IN  /\ storeFaults + Fails(ok) <= MaxFaults
        /\ rl_last' = [op |-> "get_status", telegram_id |-> telegram_id,
                       allowed |-> FALSE, remaining |-> st.remaining,
                       used |-> st.used, appended |-> FALSE,
                       allowedBefore |-> 0]
        /\ storeFaults' = storeFaults + Fails(ok)
        /\ UNCHANGED <<now, usage_logs, allowedToday, users, auth_last, authFaults>>
        /\ UNCHANGED <<fnVars, agentVars, kbVars, turnVars, convVars, taskVars>>

\* the clock advances; crossing 00:00 UTC starts a new day of the history counter
Tick ==
    /\ now < MaxTime
    /\ now' = now + 1
    /\ allowedToday' = IF today_start(now + 1) # today_start(now)
                       THEN [u \in TelegramIds |-> 0]
                       ELSE allowedToday
    /\ rl_last' = [op |-> "tick", telegram_id |-> 0, allowed |-> FALSE,
                   remaining |-> 0, used |-> 0, appended |-> FALSE,
                   allowedBefore |-> 0]
    /\ UNCHANGED <<usage_logs, storeFaults, users, auth_last, authFaults>>
    /\ UNCHANGED <<fnVars, agentVars, kbVars, turnVars, convVars, taskVars>>

\* A Python call either returns a value or raises
Returns(v) == [value |-> v, raised |-> FALSE]
Raises == [value |-> 0, raised |-> TRUE]

\* try: body / except Exception: return default
TryExcept(body, default) == IF body.raised THEN Returns(default) ELSE body

----------------------------------------------------------------------------
(* Student codes: strings as sequences of characters *)

Digits == {"1"}
Letters == {"a"}
Whitespace == {" ", "\n"}

\* len(student_code) < 5
MinCodeLen == 5
\* len(student_code) > 15
MaxCodeLen == 15
Rep(c, n) == [i \in 1..n |-> c]

\* digit-only codes: empty, one below and at each length limit, one above
DigitCodes ==
    {Rep("1", n) : n \in {0, MinCodeLen - 1, MinCodeLen, MaxCodeLen, MaxCodeLen + 1}}

\* codes with a letter in them
LetterCodes == {Rep("1", MinCodeLen - 1) \o <<l>> : l \in Letters}

\* codes with blanks around the digits, and the blank alone
PaddedCodes ==
    {<<" ">> \o Rep("1", MaxCodeLen),
     Rep("1", MinCodeLen - 1) \o <<" ">>,
     <<" ">>}

\* the codes register_user is called with
CodeInputs == DigitCodes \cup LetterCodes \cup PaddedCodes

\* str.strip(): leading and trailing whitespace removed
RECURSIVE lstrip(_)
lstrip(s) ==
    IF s # <<>> /\ Head(s) \in Whitespace THEN lstrip(Tail(s)) ELSE s

RECURSIVE rstrip(_)
rstrip(s) ==
    IF s # <<>> /\ s[Len(s)] \in Whitespace
    THEN rstrip(SubSeq(s, 1, Len(s) - 1))
    ELSE s

strip(s) == rstrip(lstrip(s))

\* str.isdigit(): non-empty and every character a digit
isdigit(s) == s # <<>> /\ \A i \in DOMAIN s : s[i] \in Digits

----------------------------------------------------------------------------
(* UserRepository *)

\* Optional[User] None
NoUser == [telegram_id |-> 0, student_code |-> <<>>]

FirstRow(tbl, rows) == tbl[CHOOSE i \in rows : \A j \in rows : i <= j]

\* get_by_telegram_id: response.data[0], or None when no row or the query raises
get_by_telegram_id(tbl, telegram_id, ok) ==
    LET rows == {i \in DOMAIN tbl : tbl[i].telegram_id = telegram_id}
    IN  IF ok /\ rows # {} THEN FirstRow(tbl, rows) ELSE NoUser

\* get_by_student_code: response.data[0], or None when no row or the query raises
get_by_student_code(tbl, student_code, ok) ==
    LET rows == {i \in DOMAIN tbl : tbl[i].student_code = student_code}
    IN  IF ok /\ rows # {} THEN FirstRow(tbl, rows) ELSE NoUser

\* the store's insert into "users": the row is added; the table declares no
\* uniqueness of telegram_id or student_code (the check is the application's)
users_insert(tbl, row) == Append(tbl, row)

M_create_replace(tbl, user_data, ok) ==
    IF ok
    THEN [users |-> IF \E i \in DOMAIN tbl : tbl[i].telegram_id = user_data.telegram_id
                    THEN [i \in DOMAIN tbl |->
                            IF tbl[i].telegram_id = user_data.telegram_id
                            THEN user_data ELSE tbl[i]]
                    ELSE users_insert(tbl, user_data),
          user |-> user_data]
    ELSE [users |-> tbl, user |-> NoUser]

\* create: the insert adds the row and returns it; None, and no row, when it raises
create(tbl, user_data, ok) ==
    IF ok
    THEN [users |-> users_insert(tbl, user_data), user |-> user_data]
    ELSE [users |-> tbl, user |-> NoUser]

\* exists: get_by_telegram_id(...) is not None
exists(tbl, telegram_id, ok) == get_by_telegram_id(tbl, telegram_id, ok) # NoUser

----------------------------------------------------------------------------
(* AuthService *)

\* the texts register_user returns, one tag per text of the source
MsgAlreadyRegistered == "already_registered"
MsgCodeTaken == "code_taken"
MsgEnterCode == "format_enter_code"
MsgNotNumeric == "format_not_numeric"
MsgTooShort == "format_too_short"
MsgTooLong == "format_too_long"
MsgSuccess == "success"
MsgRegistrationError == "registration_error"

\* _validate_student_code: empty; strip; isdigit; len < 5; len > 15
M_validate_short_boundary(student_code) ==
    LET code == strip(student_code)
    IN  IF student_code = <<>> THEN [is_valid |-> FALSE, message |-> MsgEnterCode]
        ELSE IF ~isdigit(code) THEN [is_valid |-> FALSE, message |-> MsgNotNumeric]
        ELSE IF Len(code) <= MinCodeLen
             THEN [is_valid |-> FALSE, message |-> MsgTooShort]
        ELSE IF Len(code) > MaxCodeLen
             THEN [is_valid |-> FALSE, message |-> MsgTooLong]
        ELSE [is_valid |-> TRUE, message |-> ""]

M_validate_wrong_text(student_code) ==
    LET code == strip(student_code)
    IN  IF student_code = <<>> THEN [is_valid |-> FALSE, message |-> MsgEnterCode]
        ELSE IF ~isdigit(code) THEN [is_valid |-> FALSE, message |-> MsgCodeTaken]
        ELSE IF Len(code) < MinCodeLen
             THEN [is_valid |-> FALSE, message |-> MsgTooShort]
        ELSE IF Len(code) > MaxCodeLen
             THEN [is_valid |-> FALSE, message |-> MsgTooLong]
        ELSE [is_valid |-> TRUE, message |-> ""]

_validate_student_code(student_code) ==
    LET code == strip(student_code)
    IN  IF student_code = <<>> THEN [is_valid |-> FALSE, message |-> MsgEnterCode]
        ELSE IF ~isdigit(code) THEN [is_valid |-> FALSE, message |-> MsgNotNumeric]
        ELSE IF Len(code) < MinCodeLen
             THEN [is_valid |-> FALSE, message |-> MsgTooShort]
        ELSE IF Len(code) > MaxCodeLen
             THEN [is_valid |-> FALSE, message |-> MsgTooLong]
        ELSE [is_valid |-> TRUE, message |-> ""]

\* UserCreate(telegram_id, student_code, ...): the code is stored as given
UserCreate(telegram_id, student_code) ==
    [telegram_id |-> telegram_id, student_code |-> student_code]

M_register_user_insert_first(tbl, telegram_id, student_code, okGetId, okGetCode, okCreate) ==
    LET existing_user    == get_by_telegram_id(tbl, telegram_id, okGetId)
        existing_student == get_by_student_code(tbl, student_code, okGetCode)
        validation       == _validate_student_code(student_code)
        created          == create(tbl, UserCreate(telegram_id, student_code), okCreate)
    IN  IF existing_user # NoUser
        THEN [success |-> FALSE, message |-> MsgAlreadyRegistered, users |-> tbl,
              raised |-> Fails(okGetId)]
        ELSE IF existing_student # NoUser
        THEN [success |-> FALSE, message |-> MsgCodeTaken, users |-> tbl,
              raised |-> Fails(okGetId) + Fails(okGetCode)]
        ELSE IF ~validation.is_valid
        THEN [success |-> FALSE, message |-> validation.message,
              users |-> created.users,
              raised |-> Fails(okGetId) + Fails(okGetCode) + Fails(okCreate)]
        ELSE IF created.user # NoUser
        THEN [success |-> TRUE, message |-> MsgSuccess, users |-> created.users,
              raised |-> Fails(okGetId) + Fails(okGetCode)]
        ELSE [success |-> FALSE, message |-> MsgRegistrationError,
              users |-> created.users,
              raised |-> Fails(okGetId) + Fails(okGetCode) + Fails(okCreate)]

\* register_user: the four checks in the order of the source, then the insert;
\* okGetId, okGetCode, okCreate say whether each store call goes through
register_user(tbl, telegram_id, student_code, okGetId, okGetCode, okCreate) ==
    LET existing_user    == get_by_telegram_id(tbl, telegram_id, okGetId)
        existing_student == get_by_student_code(tbl, student_code, okGetCode)
        validation       == _validate_student_code(student_code)
        created          == create(tbl, UserCreate(telegram_id, student_code), okCreate)
    IN  IF existing_user # NoUser
        THEN [success |-> FALSE, message |-> MsgAlreadyRegistered, users |-> tbl,
              raised |-> Fails(okGetId)]
        ELSE IF existing_student # NoUser
        THEN [success |-> FALSE, message |-> MsgCodeTaken, users |-> tbl,
              raised |-> Fails(okGetId) + Fails(okGetCode)]
        ELSE IF ~validation.is_valid
        THEN [success |-> FALSE, message |-> validation.message, users |-> tbl,
              raised |-> Fails(okGetId) + Fails(okGetCode)]
        ELSE IF created.user # NoUser
        THEN [success |-> TRUE, message |-> MsgSuccess, users |-> created.users,
              raised |-> Fails(okGetId) + Fails(okGetCode)]
        ELSE [success |-> FALSE, message |-> MsgRegistrationError,
              users |-> created.users,
              raised |-> Fails(okGetId) + Fails(okGetCode) + Fails(okCreate)]

\* rows the users table may hold
MaxUserRows == 2

HasRecord(tbl, telegram_id) == \E i \in DOMAIN tbl : tbl[i].telegram_id = telegram_id

CodeOwners(tbl, student_code) ==
    {tbl[i].telegram_id : i \in {j \in DOMAIN tbl : tbl[j].student_code = student_code}}

RegisterUser(telegram_id, student_code, okGetId, okGetCode, okCreate) ==
    LET r == register_user(users, telegram_id, student_code,
                           okGetId, okGetCode, okCreate)
    IN  /\ authFaults + Fails(okGetId) + Fails(okGetCode) + Fails(okCreate)
              <= MaxFaults
        /\ Len(r.users) <= MaxUserRows
        /\ users' = r.users
        /\ authFaults' = authFaults + r.raised
        /\ auth_last' = [op |-> "register_user", telegram_id |-> telegram_id,
                         student_code |-> student_code,
                         success |-> r.success, message |-> r.message,
                         hadRecord |-> HasRecord(users, telegram_id),
                         codeOwners |-> CodeOwners(users, student_code),
                         created |-> (r.users # users)]
        /\ UNCHANGED rlVars
        /\ UNCHANGED <<fnVars, agentVars, kbVars, turnVars, convVars, taskVars>>


\* is_authenticated: user_repo.exists(telegram_id); a read
M_is_authenticated_always(tbl, telegram_id, ok) == TRUE

is_authenticated(tbl, telegram_id, ok) == exists(tbl, telegram_id, ok)

\* get_user: user_repo.get_by_telegram_id(telegram_id); a read
get_user(tbl, telegram_id, ok) == get_by_telegram_id(tbl, telegram_id, ok)

\* what a call of is_authenticated does to the users store and what it returns
IsAuthenticatedStep(telegram_id, ok) ==
    /\ authFaults + Fails(ok) <= MaxFaults
    /\ authFaults' = authFaults + Fails(ok)
    /\ auth_last' = [op |-> "is_authenticated", telegram_id |-> telegram_id,
                     student_code |-> <<>>,
                     success |-> is_authenticated(users, telegram_id, ok),
                     message |-> "", hadRecord |-> HasRecord(users, telegram_id),
                     codeOwners |-> {}, created |-> FALSE]

\* a call of is_authenticated on its own
IsAuthenticated(telegram_id, ok) ==
    /\ IsAuthenticatedStep(telegram_id, ok)
    /\ UNCHANGED <<users, rlVars, fnVars, agentVars, kbVars, turnVars, convVars, taskVars>>

GetUser(telegram_id, ok) ==
    LET user == get_user(users, telegram_id, ok)
    IN  /\ authFaults + Fails(ok) <= MaxFaults
        /\ authFaults' = authFaults + Fails(ok)
        /\ auth_last' = [op |-> "get_user", telegram_id |-> telegram_id,
                         student_code |-> user.student_code,
                         success |-> (user # NoUser),
                         message |-> "", hadRecord |-> HasRecord(users, telegram_id),
                         codeOwners |-> {}, created |-> FALSE]
        /\ UNCHANGED <<users, rlVars, fnVars, agentVars, kbVars, turnVars, convVars, taskVars>>

----------------------------------------------------------------------------
(* AuthService.parse_login_command *)

\* Optional[str]: None, or the code found
NoCode == [some |-> FALSE, value |-> <<>>]
SomeCode(s) == [some |-> TRUE, value |-> s]

\* index of the first whitespace character of s, Len(s) + 1 when it has none
RECURSIVE FirstWhitespace(_, _)
FirstWhitespace(s, i) ==
    IF i > Len(s) \/ s[i] \in Whitespace THEN i ELSE FirstWhitespace(s, i + 1)

\* str.split(): the maximal runs of non-whitespace characters, in order
RECURSIVE split(_)
split(s) ==
    LET t == lstrip(s)
        n == FirstWhitespace(t, 1)
    IN  IF t = <<>> THEN <<>>
        ELSE <<SubSeq(t, 1, n - 1)>> \o split(SubSeq(t, n, Len(t)))

M_parse_first_token(message_text) ==
    LET parts == split(strip(message_text))
    IN  IF message_text = <<>> THEN NoCode
        ELSE IF Len(parts) < 2 THEN NoCode
        ELSE SomeCode(strip(parts[1]))

\* parse_login_command: parts[1] of the stripped, split text (0-based)
parse_login_command(message_text) ==
    LET parts == split(strip(message_text))
    IN  IF message_text = <<>> THEN NoCode
        ELSE IF Len(parts) < 2 THEN NoCode
        ELSE SomeCode(strip(parts[2]))

\* characters of a command text: a letter, a digit, two kinds of whitespace
LoginChars == {"l", "1", " ", "\n"}
\* longest command text
MaxTextLen == 5
LoginTexts == UNION {[1..n -> LoginChars] : n \in 0..MaxTextLen}

\* the command texts the auth gate is driven with: no token, one, two, three
GateTexts == {<<>>, <<"l">>, <<"l", " ", "1">>, <<"l", " ", "1", " ", "l">>}

ParseLoginCommand(message_text) ==
    LET code == parse_login_command(message_text)
    IN  /\ auth_last' = [op |-> "parse_login_command", telegram_id |-> 0,
                         student_code |-> code.value, success |-> code.some,
                         message |-> "", hadRecord |-> FALSE,
                         codeOwners |-> {}, created |-> FALSE]
        /\ UNCHANGED <<users, authFaults, rlVars, fnVars, agentVars, kbVars, turnVars, convVars, taskVars>>

\* parse_login_command applied to the text drawn at the start
ApplyParseLoginCommand ==
    /\ call.op = "parse_login_command"
    /\ ~ret.done
    /\ ret' = [done |-> TRUE, value |-> parse_login_command(call.text)]
    /\ UNCHANGED <<call, rlVars, authVars, agentVars, kbVars, turnVars, convVars, taskVars>>

----------------------------------------------------------------------------
(* AIAgent._extract_coordinates *)

\* A chunk text is a sequence of tokens: the word "عرض" (lat), the word
\* "طول" (lng), a colon, a whitespace character, a number as the pattern
\* -?\d+\.?\d* matches it (its value in tenths), or any other character (x).
Tok(k) == [k |-> k, v |-> 0]
Num(v) == [k |-> "num", v |-> v]

\* Optional[Dict[str, float]]: None, or {"latitude": lat, "longitude": lng}
NoLocation == [some |-> FALSE, latitude |-> 0, longitude |-> 0]
Location(lat, lng) == [some |-> TRUE, latitude |-> lat, longitude |-> lng]

\* 25 <= lat <= 40 and 44 <= lng <= 64
LatMin == 25
LatMax == 40
LngMin == 44
LngMax == 64

\* index of the first colon of text after position i, Len(text) + 1 if none
RECURSIVE NextColon(_, _)
NextColon(text, i) ==
    IF i + 1 > Len(text) \/ text[i + 1].k = ":" THEN i + 1
    ELSE NextColon(text, i + 1)

\* index of the first token at or after position i that is not whitespace
RECURSIVE SkipSpace(_, _)
SkipSpace(text, i) ==
    IF i > Len(text) \/ text[i].k # " " THEN i ELSE SkipSpace(text, i + 1)

\* label[^:]*:\s*(-?\d+\.?\d*) matches at i: the label, no colon up to the
\* next colon, whitespace, a number
MatchesAt(text, i, label) ==
    /\ text[i].k = label
    /\ LET n == SkipSpace(text, NextColon(text, i) + 1)
       IN  n <= Len(text) /\ text[n].k = "num"

\* re.search: the leftmost match, None when there is none
NoMatch == [found |-> FALSE, group |-> 0]
re_search(label, text) ==
    LET starts == {i \in DOMAIN text : MatchesAt(text, i, label)}
        first  == CHOOSE i \in starts : \A j \in starts : i <= j
    IN  IF starts = {} THEN NoMatch
        ELSE [found |-> TRUE,
              group |-> text[SkipSpace(text, NextColon(text, first) + 1)].v]

M_extract_exclusive_bounds(text) ==
    LET lat_match == re_search("lat", text)
        lng_match == re_search("lng", text)
        lat == lat_match.group
        lng == lng_match.group
    IN  IF lat_match.found /\ lng_match.found
           /\ LatMin * 10 < lat /\ lat <= LatMax * 10
           /\ LngMin * 10 <= lng /\ lng < LngMax * 10
        THEN Location(lat, lng)
        ELSE NoLocation

\* _extract_coordinates: float() of a matched number cannot raise, so the
\* ValueError branch is never taken
_extract_coordinates(text) ==
    LET lat_match == re_search("lat", text)
        lng_match == re_search("lng", text)
        lat == lat_match.group
        lng == lng_match.group
    IN  IF lat_match.found /\ lng_match.found
           /\ LatMin * 10 <= lat /\ lat <= LatMax * 10
           /\ LngMin * 10 <= lng /\ lng <= LngMax * 10
        THEN Location(lat, lng)
        ELSE NoLocation

\* latitudes and longitudes tried, in tenths: far outside, and just outside
\* and on each edge of the box
LatValues == {100, LatMin * 10 - 1, LatMin * 10, LatMax * 10, LatMax * 10 + 1}
LngValues == {LngMin * 10 - 1, LngMin * 10, LngMax * 10, LngMax * 10 + 1}

\* pieces of chunk text
LatPiece(v) == <<Tok("lat"), Tok("x"), Tok(":"), Tok(" "), Num(v)>>
LngPiece(v) == <<Tok("lng"), Tok(":"), Num(v)>>
\* one number under both labels
BothPiece(v) == <<Tok("lat"), Tok("lng"), Tok(":"), Num(v)>>
Pieces ==
    {LatPiece(v) : v \in LatValues} \cup {LngPiece(v) : v \in LngValues}
    \cup {BothPiece(v) : v \in {300, 500}}
    \cup {<<Tok("lat"), Tok(":"), Tok("x")>>,
          <<Tok("lng"), Tok(" "), Tok("x")>>,
          <<Tok("x"), Tok(":"), Num(300)>>}

\* pieces a chunk text is made of, at most
MaxPieces == 2

RECURSIVE TextsOf(_)
TextsOf(n) ==
    IF n = 0 THEN {<<>>}
    ELSE TextsOf(n - 1) \cup {t \o q : t \in TextsOf(n - 1), q \in Pieces}

CoordinateTexts == TextsOf(MaxPieces)

\* _extract_coordinates applied to the text drawn at the start
ApplyExtractCoordinates ==
    /\ call.op = "_extract_coordinates"
    /\ ~ret.done
    /\ ret' = [done |-> TRUE, value |-> _extract_coordinates(call.text)]
    /\ UNCHANGED <<call, rlVars, authVars, agentVars, kbVars, turnVars, convVars, taskVars>>

----------------------------------------------------------------------------
(* AIAgent.chat *)

\* A text: what it says (a tag) and how many characters it has
Text(tag, len) == [text |-> tag, len |-> len]
\* None or ""
EmptyText == Text("", 0)

\* conversation_history[-3:]
HistoryWindow == 3
\* msg.get("content", "")[:300]
ContentCut == 300

\* s[:n]: the first n characters
Prefix(s, n) == Text(IF n = 0 THEN "" ELSE s.text, Min(s.len, n))

\* a key a history entry does not have
NoKey == "<no key>"
NoContent == Text(NoKey, 0)

\* msg.get("role", "user"), msg.get("content", "")
get_role(msg) == IF msg.role = NoKey THEN "user" ELSE msg.role
get_content(msg) == IF msg.content = NoContent THEN EmptyText ELSE msg.content

\* entries a supplied history may have
MaxHistory == 4

\* the i-th entry of a supplied history: one longer than the cut, one exactly
\* as long, one with neither key, and so on
HistoryTags == <<"h1", "h2", "h3", "h4", "h5", "h6">>
HistoryEntry(i) ==
    IF i % 3 = 1 THEN [role |-> "assistant", content |-> Text(HistoryTags[i], ContentCut + 1)]
    ELSE IF i % 3 = 2 THEN [role |-> "user", content |-> Text(HistoryTags[i], ContentCut)]
    ELSE [role |-> NoKey, content |-> NoContent]

\* conversation_history: None or [] (both <<>>), or n entries
Histories == {[i \in 1..n |-> HistoryEntry(i)] : n \in 0..MaxHistory}

\* s[-n:]: the last n elements
LastN(s, n) == SubSeq(s, Max(1, Len(s) - n + 1), Len(s))

SystemPrompt == Text("SYSTEM_PROMPT", 1)
UserMessages == {Text("question", 1)}

M_build_messages_first3(user_message, conversation_history) ==
    <<[role |-> "system", content |-> SystemPrompt]>>
    \o (IF conversation_history # <<>>
        THEN LET recent == SubSeq(conversation_history, 1,
                                  Min(HistoryWindow, Len(conversation_history)))
             IN  [i \in DOMAIN recent |->
                    [role |-> get_role(recent[i]),
                     content |-> Prefix(get_content(recent[i]), ContentCut)]]
        ELSE <<>>)
    \o <<[role |-> "user", content |-> user_message]>>

\* the message list of the first model call (lines 148-159)
build_messages(user_message, conversation_history) ==
    <<[role |-> "system", content |-> SystemPrompt]>>
    \o (IF conversation_history # <<>>
        THEN LET recent == LastN(conversation_history, HistoryWindow)
             IN  [i \in DOMAIN recent |->
                    [role |-> get_role(recent[i]),
                     content |-> Prefix(get_content(recent[i]), ContentCut)]]
        ELSE <<>>)
    \o <<[role |-> "user", content |-> user_message]>>

\* the texts chat returns of its own
Fallback == Text("fallback: did not understand", 1)
Apology == Text("apology: something went wrong", 1)

\* content or "..."
Or(content, default) == IF content.len = 0 THEN default ELSE content

\* tool calls one response may request
MaxToolCalls == 2

\* tool_call.function: a name the code knows or not, and arguments that are
\* JSON with the key the tool reads ("ok"), JSON without it ("no_key"), or
\* not JSON ("malformed")
ToolCallKinds ==
    {[name |-> "search_knowledge", arguments |-> a] : a \in {"ok", "no_key", "malformed"}}
    \cup {[name |-> "send_location", arguments |-> a] : a \in {"ok", "no_key"}}
    \cup {[name |-> "other_tool", arguments |-> "ok"]}

\* assistant_message.tool_calls: the calls in request order, ids 1, 2, ...
ToolCallSeqs ==
    UNION {{[i \in 1..n |-> [id |-> i, name |-> ks[i].name,
                            arguments |-> ks[i].arguments]] :
               ks \in [1..n -> ToolCallKinds]} : n \in 1..MaxToolCalls}

\* what a model call does: raises, or returns a message
ModelError == [error |-> TRUE, content |-> EmptyText, tool_calls |-> <<>>]
ModelMessage(content, tool_calls) ==
    [error |-> FALSE, content |-> content, tool_calls |-> tool_calls]

FirstResponses ==
    {ModelError}
    \cup {ModelMessage(c, <<>>) : c \in {Text("direct answer", 1), EmptyText}}
    \cup {ModelMessage(EmptyText, tc) : tc \in ToolCallSeqs}

SecondResponses ==
    {ModelError}
    \cup {ModelMessage(c, <<>>) : c \in {Text("final answer", 1), EmptyText}}

\* chunk texts knowledge_service.search may return to a tool
PlainChunk == <<Tok("x")>>
ChunkA == LatPiece(LatMin * 10) \o LngPiece(LngMin * 10)
ChunkB == LatPiece(LatMax * 10) \o LngPiece(LngMax * 10)
ChunkOutside == LatPiece(100) \o LngPiece(LngMin * 10)
SearchResult(content) == [content |-> content, similarity |-> 90]

\* the result lists of knowledge_service.search(..., limit=5) tried
SearchResults ==
    {<<>>,
     <<SearchResult(PlainChunk)>>,
     <<SearchResult(ChunkA)>>,
     <<SearchResult(ChunkOutside), SearchResult(ChunkB)>>}

\* json.loads(tool_call.function.arguments)
json_loads(arguments) ==
    IF arguments = "malformed" THEN Raises
    ELSE Returns([has_key |-> arguments = "ok"])

\* _search_knowledge: the sentinel, or the formatted results
_search_knowledge(results) ==
    IF results = <<>> THEN [text |-> "nothing found", len |-> 1]
    ELSE [text |-> "formatted results", len |-> 1, results |-> results]

\* _get_location: the first result with coordinates, else None
M_get_location_first_only(results) ==
    IF results = <<>> THEN NoLocation
    ELSE _extract_coordinates(Head(results).content)

RECURSIVE _get_location(_)
_get_location(results) ==
    IF results = <<>> THEN NoLocation
    ELSE IF _extract_coordinates(Head(results).content).some
         THEN _extract_coordinates(Head(results).content)
         ELSE _get_location(Tail(results))

\* json.dumps(location_to_send) if location_to_send else "..."
location_content(location_to_send) ==
    IF location_to_send.some
    THEN [text |-> "location json", len |-> 1, location |-> location_to_send]
    ELSE [text |-> "no coordinates", len |-> 1]

ToolResult(tool_call, content) ==
    [tool_call_id |-> tool_call.id, role |-> "tool", content |-> content]

M_tool_call_keep_first(tool_call, results, location_to_send, tool_results) ==
    LET tool_args == json_loads(tool_call.arguments)
        found == _get_location(results)
        kept == IF location_to_send.some THEN location_to_send ELSE found
    IN  IF tool_args.raised THEN Raises
        ELSE IF tool_call.name = "search_knowledge"
        THEN IF ~tool_args.value.has_key THEN Raises
             ELSE Returns([location_to_send |-> location_to_send,
                           tool_results |-> Append(tool_results,
                               ToolResult(tool_call, _search_knowledge(results)))])
        ELSE IF tool_call.name = "send_location"
        THEN IF ~tool_args.value.has_key THEN Raises
             ELSE Returns([location_to_send |-> kept,
                           tool_results |-> Append(tool_results,
                               ToolResult(tool_call, location_content(kept)))])
        ELSE Returns([location_to_send |-> location_to_send,
                      tool_results |-> tool_results])

M_tool_call_search_locates(tool_call, results, location_to_send, tool_results) ==
    LET tool_args == json_loads(tool_call.arguments)
        found == _get_location(results)
    IN  IF tool_args.raised THEN Raises
        ELSE IF tool_call.name = "search_knowledge"
        THEN IF ~tool_args.value.has_key THEN Raises
             ELSE Returns([location_to_send |-> found,
                           tool_results |-> Append(tool_results,
                               ToolResult(tool_call, _search_knowledge(results)))])
        ELSE IF tool_call.name = "send_location"
        THEN IF ~tool_args.value.has_key THEN Raises
             ELSE Returns([location_to_send |-> found,
                           tool_results |-> Append(tool_results,
                               ToolResult(tool_call, location_content(found)))])
        ELSE Returns([location_to_send |-> location_to_send,
                      tool_results |-> tool_results])

\* one pass of the loop body (lines 180-197): results is what
\* knowledge_service.search returns to the tool, if it is called
tool_call_step(tool_call, results, location_to_send, tool_results) ==
    LET tool_args == json_loads(tool_call.arguments)
        found == _get_location(results)
    IN  IF tool_args.raised THEN Raises
        ELSE IF tool_call.name = "search_knowledge"
        THEN IF ~tool_args.value.has_key THEN Raises
             ELSE Returns([location_to_send |-> location_to_send,
                           tool_results |-> Append(tool_results,
                               ToolResult(tool_call, _search_knowledge(results)))])
        ELSE IF tool_call.name = "send_location"
        THEN IF ~tool_args.value.has_key THEN Raises
             ELSE Returns([location_to_send |-> found,
                           tool_results |-> Append(tool_results,
                               ToolResult(tool_call, location_content(found)))])
        ELSE Returns([location_to_send |-> location_to_send,
                      tool_results |-> tool_results])

\* tools=TOOLS in the first call, no tools argument in the second
M_tools_offered == TRUE
FirstCallTools == TRUE
SecondCallTools == FALSE

M_chat_except_keeps_location(location_to_send) ==
    [text |-> Apology, location |-> location_to_send]

\* except Exception: return (apology, None), whatever location_to_send holds
chat_except(location_to_send) == [text |-> Apology, location |-> NoLocation]

NoResult == [text |-> EmptyText, location |-> NoLocation]

\* no chat call in progress
AgentIdle ==
    [pc |-> "idle", user_message |-> EmptyText, history |-> <<>>,
     messages |-> <<>>, tool_calls |-> <<>>, next |-> 1, tool_results |-> <<>>,
     location_to_send |-> NoLocation, invocations |-> <<>>, located |-> <<>>,
     searched |-> <<>>,
     failed |-> "no", result |-> NoResult, escaped |-> FALSE]

\* chat is called: location_to_send = None and the message list is built
ChatStart(user_message, conversation_history) ==
    /\ agent.pc \in {"idle", "delivered"}
    /\ agent' = [AgentIdle EXCEPT
                   !.pc = "first_call",
                   !.user_message = user_message,
                   !.history = conversation_history,
                   !.messages = build_messages(user_message, conversation_history)]
    /\ outbox' = <<>>
    /\ UNCHANGED <<rlVars, authVars, fnVars, kbVars, turnVars, convVars, taskVars>>

\* chat returns to its caller, through the except branch when body raised
Return(st, body) ==
    LET r == TryExcept(body, chat_except(st.location_to_send))
    IN  [st EXCEPT !.pc = "done", !.result = r.value, !.escaped = r.raised]

\* the first model call (lines 163-175, and 217-219 when no tool is requested)
FirstCall(response) ==
    /\ agent.pc = "first_call"
    /\ LET called == [agent EXCEPT !.invocations =
                         Append(@, [messages |-> agent.messages,
                                    tools |-> FirstCallTools])]
       IN  agent' =
             IF response.error
             THEN Return([called EXCEPT !.failed = "first_call"], Raises)
             ELSE IF response.tool_calls # <<>>
             THEN [called EXCEPT !.pc = "tool_dispatch",
                                 !.tool_calls = response.tool_calls]
             ELSE Return(called,
                         Returns([text |-> Or(response.content, Fallback),
                                  location |-> called.location_to_send]))
    /\ UNCHANGED <<outbox, rlVars, authVars, fnVars, kbVars, turnVars, convVars, taskVars>>

\* the loop body for the next requested tool call
ToolCall(results) ==
    /\ agent.pc = "tool_dispatch"
    /\ agent.next <= Len(agent.tool_calls)
    /\ LET tool_call == agent.tool_calls[agent.next]
           step == tool_call_step(tool_call, results, agent.location_to_send,
                                  agent.tool_results)
       IN  agent' =
             IF step.raised
             THEN Return([agent EXCEPT !.failed = "tool_dispatch"], Raises)
             ELSE [agent EXCEPT
                     !.next = @ + 1,
                     !.location_to_send = step.value.location_to_send,
                     !.tool_results = step.value.tool_results,
                     !.located = IF tool_call.name = "send_location"
                                 THEN Append(@, _get_location(results)) ELSE @,
                     !.searched = IF tool_call.name = "send_location"
                                  THEN Append(@, results) ELSE @]
    /\ UNCHANGED <<outbox, rlVars, authVars, fnVars, kbVars, turnVars, convVars, taskVars>>

\* after the loop: the request and the tool results join the message list and
\* the second model call is made (lines 200-213, 219)
SecondCall(response) ==
    /\ agent.pc = "tool_dispatch"
    /\ agent.next > Len(agent.tool_calls)
    /\ LET messages == agent.messages
               \o <<[role |-> "assistant", content |-> EmptyText,
                     tool_calls |-> agent.tool_calls]>>
               \o agent.tool_results
           called == [agent EXCEPT
                        !.messages = messages,
                        !.invocations = Append(@, [messages |-> messages,
                                                   tools |-> SecondCallTools])]
       IN  agent' =
             IF response.error
             THEN Return([called EXCEPT !.failed = "second_call"], Raises)
             ELSE Return(called,
                         Returns([text |-> Or(response.content, Fallback),
                                  location |-> called.location_to_send]))
    /\ UNCHANGED <<outbox, rlVars, authVars, fnVars, kbVars, turnVars, convVars, taskVars>>

----------------------------------------------------------------------------
(* MessageHandler._process_message, from the call of agent.chat on *)

\* remaining <= 5 and remaining > 0
LowQuota == 5

HandlerApology == Text("handler apology", 1)

\* lines 164-183: the reply, with the low-quota warning; the location if
\* there is one; the apology when a send raises
deliver(response, location, remaining, okText, okLocation) ==
    LET warned == remaining <= LowQuota /\ remaining > 0
        reply == [kind |-> "text", text |-> response, warning |-> warned]
        sorry == [kind |-> "text", text |-> HandlerApology, warning |-> FALSE]
    IN  IF ~okText THEN <<sorry>>
        ELSE IF ~location.some THEN <<reply>>
        ELSE IF ~okLocation THEN <<reply, sorry>>
        ELSE <<reply, [kind |-> "location", location |-> location]>>

\* the handler receives chat's pair and answers the chat
Deliver(remaining, okText, okLocation) ==
    /\ agent.pc = "done"
    /\ ~agent.escaped
    /\ agent' = [agent EXCEPT !.pc = "delivered"]
    /\ outbox' = deliver(agent.result.text, agent.result.location,
                         remaining, okText, okLocation)
    /\ UNCHANGED <<rlVars, authVars, fnVars, kbVars, turnVars, convVars, taskVars>>


----------------------------------------------------------------------------
(* KnowledgeRepository and KnowledgeBaseService *)

\* what documents and queries are about; the embedding of a text is the
\* vector of its topic
Topics == {"a", "b", "c"}

\* Optional[List[float]]: None, the empty list, or the vector of a topic
NoEmbedding == "None"
EmptyEmbedding == "[]"
EmbeddingOf(text) == text

\* what the embeddings endpoint does with a request
EmbedOutcomes == {"ok", "raise", "empty"}

\* similarity_threshold: float = 0.3, in hundredths
SimilarityThreshold == 30
\* limit: int = 5
SearchLimit == 5

\* cosine similarity of two vectors, in hundredths: equal topics 1.00, "a"
\* and "b" exactly at the threshold, every other pair just below it
similarity(u, v) ==
    IF u = v THEN 100
    ELSE IF {u, v} = {"a", "b"} THEN SimilarityThreshold
    ELSE SimilarityThreshold - 1

\* rows the knowledge_embeddings table may hold
MaxChunks == 2

\* RPC match_knowledge(query_embedding, match_threshold, match_count): the
\* rows scoring at least the threshold, by descending score, at most
\* match_count of them; rows of equal score come in any order
match_knowledge(chunks, query_embedding, match_threshold, match_count) ==
    LET sim(i) == similarity(query_embedding, chunks[i].embedding)
        hits   == {i \in DOMAIN chunks : sim(i) >= match_threshold}
        n      == Min(match_count, Cardinality(hits))
    IN  {[k \in 1..n |-> [content |-> chunks[order[k]].content,
                          similarity |-> sim(order[k])]] :
            order \in {o \in [1..n -> hits] :
                         /\ \A a, b \in 1..n : a < b =>
                               o[a] # o[b] /\ sim(o[a]) >= sim(o[b])
                         /\ \A a \in 1..n, i \in hits :
                               (\A b \in 1..n : o[b] # i) => sim(i) <= sim(o[a])}}

\* KnowledgeRepository.search: the rows of the RPC as results, [] when it
\* raises; rows is what the RPC answers when the call goes through
knowledge_repo_search(rows, ok) ==
    TryExcept(IF ok THEN Returns(rows) ELSE Raises, <<>>)

\* KnowledgeRepository.insert: bool(response.data), False when it raises
knowledge_repo_insert(chunks, content, embedding, ok) ==
    LET row == [content |-> content, embedding |-> embedding]
        r   == TryExcept(IF ok THEN Returns(TRUE) ELSE Raises, FALSE)
    IN  [value |-> r.value, raised |-> r.raised,
         chunks |-> IF ok THEN Append(chunks, row) ELSE chunks]

\* KnowledgeRepository.delete_all
knowledge_repo_delete_all(chunks, ok) ==
    LET r == TryExcept(IF ok THEN Returns(TRUE) ELSE Raises, FALSE)
    IN  [value |-> r.value, raised |-> r.raised,
         chunks |-> IF ok THEN <<>> ELSE chunks]

\* _get_embedding: response.data[0].embedding, None when the request raises
_get_embedding(text, outcome) ==
    TryExcept(IF outcome = "ok" THEN Returns(EmbeddingOf(text))
              ELSE IF outcome = "empty" THEN Returns(EmptyEmbedding)
              ELSE Raises,
              NoEmbedding)

\* `not embedding`: None and the empty list are falsy
Falsy(embedding) == embedding \in {NoEmbedding, EmptyEmbedding}

M_kb_search_no_guard(chunks, query, limit, similarity_threshold, outcome, rows, ok) ==
    LET query_embedding == _get_embedding(query, outcome)
        results == knowledge_repo_search(
                       IF Falsy(query_embedding.value) THEN <<>> ELSE rows, ok)
        body == IF query_embedding.raised THEN Raises
                ELSE IF results.raised THEN Raises
                ELSE Returns(results.value)
        r == TryExcept(body, <<>>)
    IN  [value |-> r.value, raised |-> r.raised,
         queried |-> ~query_embedding.raised]

\* KnowledgeBaseService.search: rows is one answer of match_knowledge for the
\* query's embedding; queried says whether the store was called
kb_search(chunks, query, limit, similarity_threshold, outcome, rows, ok) ==
    LET query_embedding == _get_embedding(query, outcome)
        results == knowledge_repo_search(rows, ok)
        body == IF query_embedding.raised THEN Raises
                ELSE IF Falsy(query_embedding.value) THEN Returns(<<>>)
                ELSE IF results.raised THEN Raises
                ELSE Returns(results.value)
        r == TryExcept(body, <<>>)
    IN  [value |-> r.value, raised |-> r.raised,
         queried |-> ~query_embedding.raised /\ ~Falsy(query_embedding.value)]

M_add_document_no_guard(chunks, content, outcome, ok) ==
    LET embedding == _get_embedding(content, outcome)
        inserted  == knowledge_repo_insert(chunks, content, embedding.value, ok)
        body == IF embedding.raised THEN Raises
                ELSE IF inserted.raised THEN Raises
                ELSE Returns(inserted.value)
        r == TryExcept(body, FALSE)
    IN  [value |-> r.value, raised |-> r.raised,
         chunks |-> IF embedding.raised THEN chunks ELSE inserted.chunks]

\* KnowledgeBaseService.add_document
add_document(chunks, content, outcome, ok) ==
    LET embedding == _get_embedding(content, outcome)
        inserted  == knowledge_repo_insert(chunks, content, embedding.value, ok)
        body == IF embedding.raised THEN Raises
                ELSE IF Falsy(embedding.value) THEN Returns(FALSE)
                ELSE IF inserted.raised THEN Raises
                ELSE Returns(inserted.value)
        r == TryExcept(body, FALSE)
    IN  [value |-> r.value, raised |-> r.raised,
         chunks |-> IF embedding.raised \/ Falsy(embedding.value)
                    THEN chunks ELSE inserted.chunks]

\* no service call yet
KbNone == [op |-> "none", text |-> "", limit |-> 0, outcome |-> "ok",
           ok |-> TRUE, value |-> <<>>, raised |-> FALSE, queried |-> FALSE,
           inserted |-> FALSE]

KbEmpty == [chunks |-> <<>>, last |-> KbNone]

KbSearch(query, limit, outcome, ok) ==
    \E rows \in match_knowledge(kb.chunks, EmbeddingOf(query),
                                SimilarityThreshold, limit) :
        LET r == kb_search(kb.chunks, query, limit, SimilarityThreshold,
                           outcome, rows, ok)
        IN  /\ kb' = [chunks |-> kb.chunks,
                      last |-> [op |-> "search", text |-> query, limit |-> limit,
                                outcome |-> outcome, ok |-> ok,
                                value |-> r.value, raised |-> r.raised,
                                queried |-> r.queried, inserted |-> FALSE]]
            /\ UNCHANGED <<rlVars, authVars, fnVars, agentVars, turnVars, convVars, taskVars>>

KbAddDocument(content, outcome, ok) ==
    LET r == add_document(kb.chunks, content, outcome, ok)
    IN  /\ Len(r.chunks) <= MaxChunks
        /\ kb' = [chunks |-> r.chunks,
                  last |-> [op |-> "add_document", text |-> content, limit |-> 0,
                            outcome |-> outcome, ok |-> ok,
                            value |-> r.value, raised |-> r.raised,
                            queried |-> FALSE,
                            inserted |-> (r.chunks # kb.chunks)]]
        /\ UNCHANGED <<rlVars, authVars, fnVars, agentVars, turnVars, convVars, taskVars>>

\* clear_all: knowledge_repo.delete_all()
KbClearAll(ok) ==
    LET r == knowledge_repo_delete_all(kb.chunks, ok)
    IN  /\ kb' = [chunks |-> r.chunks,
                  last |-> [op |-> "clear_all", text |-> "", limit |-> 0,
                            outcome |-> "ok", ok |-> ok,
                            value |-> r.value, raised |-> r.raised,
                            queried |-> FALSE, inserted |-> FALSE]]
        /\ UNCHANGED <<rlVars, authVars, fnVars, agentVars, turnVars, convVars, taskVars>>


----------------------------------------------------------------------------
(* KnowledgeBaseService.format_context *)

\* A string as a sequence of segments, each a piece of named text of some
\* length; its characters are those of its segments in order
Seg(tag, len) == [tag |-> tag, len |-> len]

RECURSIVE StrLen(_)
StrLen(s) == IF s = <<>> THEN 0 ELSE Head(s).len + StrLen(Tail(s))

\* s[:n] for n >= 0
RECURSIVE StrPrefix(_, _)
StrPrefix(s, n) ==
    IF s = <<>> \/ n <= 0 THEN <<>>
    ELSE IF Head(s).len <= n THEN <<Head(s)>> \o StrPrefix(Tail(s), n - Head(s).len)
    ELSE <<Seg(Head(s).tag, n)>>

\* str.strip() of a string whose whitespace is in segments tagged "ws"
RECURSIVE StrLStrip(_)
StrLStrip(s) == IF s # <<>> /\ Head(s).tag = "ws" THEN StrLStrip(Tail(s)) ELSE s
RECURSIVE StrRStrip(_)
StrRStrip(s) ==
    IF s # <<>> /\ s[Len(s)].tag = "ws" THEN StrRStrip(SubSeq(s, 1, Len(s) - 1)) ELSE s
StrStrip(s) == StrRStrip(StrLStrip(s))

\* "\n\n---\n\n"
SeparatorLen == 7
Separator == Seg("separator", SeparatorLen)
\* "..."
EllipsisLen == 3
Ellipsis == Seg("...", EllipsisLen)
\* total_length += len(content) + 10
SeparatorAllowance == 10
\* if remaining > 100
MinRemaining == 100
\* "[منبع: " and "]\n"
SourceOpenLen == 7
SourceCloseLen == 2

\* sep.join(parts)
RECURSIVE Join(_)
Join(parts) ==
    IF parts = <<>> THEN <<>>
    ELSE IF Len(parts) = 1 THEN parts[1]
    ELSE parts[1] \o <<Separator>> \o Join(Tail(parts))

\* content.strip(), with "[منبع: {source}]\n" before it when there is a source
labelled(result) ==
    (IF result.source # <<>>
     THEN <<Seg("[source: ", SourceOpenLen)>> \o result.source
          \o <<Seg("]\\n", SourceCloseLen)>>
     ELSE <<>>)
    \o StrStrip(result.content)

RECURSIVE M_format_parts_no_cut(_, _, _, _)
M_format_parts_no_cut(results, max_length, context_parts, total_length) ==
    IF results = <<>> THEN context_parts
    ELSE LET content == labelled(Head(results))
         IN  M_format_parts_no_cut(Tail(results), max_length,
                                   Append(context_parts, content),
                                   total_length + StrLen(content) + SeparatorAllowance)

RECURSIVE M_format_parts_cut_always(_, _, _, _)
M_format_parts_cut_always(results, max_length, context_parts, total_length) ==
    IF results = <<>> THEN context_parts
    ELSE LET content == labelled(Head(results))
             remaining == max_length - total_length
         IN  IF total_length + StrLen(content) > max_length
             THEN Append(context_parts,
                         StrPrefix(content, remaining) \o <<Ellipsis>>)
             ELSE M_format_parts_cut_always(Tail(results), max_length,
                               Append(context_parts, content),
                               total_length + StrLen(content) + SeparatorAllowance)

\* the loop of lines 135-152, from one result on
RECURSIVE format_parts(_, _, _, _)
format_parts(results, max_length, context_parts, total_length) ==
    IF results = <<>> THEN context_parts
    ELSE LET content == labelled(Head(results))
             remaining == max_length - total_length
         IN  IF total_length + StrLen(content) > max_length
             THEN IF remaining > MinRemaining
                  THEN Append(context_parts,
                              StrPrefix(content, remaining) \o <<Ellipsis>>)
                  ELSE context_parts
             ELSE format_parts(Tail(results), max_length,
                               Append(context_parts, content),
                               total_length + StrLen(content) + SeparatorAllowance)

\* format_context: "" for no results, else the parts joined
format_context(results, max_length) ==
    IF results = <<>> THEN <<>>
    ELSE Join(format_parts(results, max_length, <<>>, 0))

\* results in one list, at most
MaxResults == 3

\* the i-th result of a list: its text is its own; kind says how long the
\* content is, whether whitespace surrounds it and whether it names a source
ResultTags == <<"r1", "r2", "r3", "r4", "r5">>
ResultKinds ==
    {[len |-> n, padded |-> FALSE, sourced |-> FALSE] : n \in {0, 60, 140, 150, 300}}
    \cup {[len |-> n, padded |-> FALSE, sourced |-> TRUE] : n \in {60, 300}}
    \cup {[len |-> 60, padded |-> TRUE, sourced |-> FALSE]}

ResultOf(i, kind) ==
    [content |-> (IF kind.padded THEN <<Seg("ws", 2)>> ELSE <<>>)
                 \o (IF kind.len > 0 THEN <<Seg(ResultTags[i], kind.len)>> ELSE <<>>)
                 \o (IF kind.padded THEN <<Seg("ws", 1)>> ELSE <<>>),
     source |-> IF kind.sourced THEN <<Seg("file.docx", 9)>> ELSE <<>>]

ResultLists ==
    UNION {{[i \in 1..n |-> ResultOf(i, ks[i])] : ks \in [1..n -> ResultKinds]} :
              n \in 0..MaxResults}

\* max_length values tried: nothing fits, too little left to cut, room to cut
MaxLengths == {0, MinRemaining, 250}

\* format_context applied to the arguments drawn at the start
ApplyFormatContext ==
    /\ call.op = "format_context"
    /\ ~ret.done
    /\ ret' = [done |-> TRUE,
               value |-> format_context(call.results, call.max_length)]
    /\ UNCHANGED <<call, rlVars, authVars, agentVars, kbVars, turnVars, convVars, taskVars>>

----------------------------------------------------------------------------
(* KnowledgeLoader.chunk_text (scripts/load_knowledge.py) *)

\* self.chunk_size (1000 characters in the source), scaled down
chunk_size == 3

\* index of the first "\n\n" of s at or after i, 0 when there is none
RECURSIVE FindBlankLine(_, _)
FindBlankLine(s, i) ==
    IF i + 1 > Len(s) THEN 0
    ELSE IF s[i] = "\n" /\ s[i + 1] = "\n" THEN i
    ELSE FindBlankLine(s, i + 1)

\* text.split("\n\n")
RECURSIVE split_paragraphs(_)
split_paragraphs(s) ==
    LET i == FindBlankLine(s, 1)
    IN  IF i = 0 THEN <<s>>
        ELSE <<SubSeq(s, 1, i - 1)>> \o split_paragraphs(SubSeq(s, i + 2, Len(s)))

\* the word loop of lines 77-86
RECURSIVE chunk_words(_, _, _)
chunk_words(words, chunks, current_chunk) ==
    IF words = <<>> THEN [chunks |-> chunks, current_chunk |-> current_chunk]
    ELSE LET word == Head(words)
         IN  IF Len(current_chunk) + Len(word) > chunk_size
             THEN chunk_words(Tail(words),
                              IF current_chunk # <<>>
                              THEN Append(chunks, strip(current_chunk)) ELSE chunks,
                              word \o <<" ">>)
             ELSE chunk_words(Tail(words), chunks, current_chunk \o word \o <<" ">>)

RECURSIVE M_chunk_paragraphs_no_flush(_, _, _)
M_chunk_paragraphs_no_flush(paragraphs, chunks, current_chunk) ==
    IF paragraphs = <<>> THEN [chunks |-> chunks, current_chunk |-> current_chunk]
    ELSE LET para == strip(Head(paragraphs))
             flushed == IF current_chunk # <<>>
                        THEN Append(chunks, strip(current_chunk)) ELSE chunks
             worded == chunk_words(split(para), flushed, <<>>)
         IN  IF para = <<>> THEN M_chunk_paragraphs_no_flush(Tail(paragraphs), chunks, current_chunk)
             ELSE IF Len(para) > chunk_size
             THEN IF Len(para) > chunk_size
                  THEN M_chunk_paragraphs_no_flush(Tail(paragraphs), worded.chunks, worded.current_chunk)
                  ELSE M_chunk_paragraphs_no_flush(Tail(paragraphs), flushed, para \o <<"\n", "\n">>)
             ELSE M_chunk_paragraphs_no_flush(Tail(paragraphs), chunks,
                       current_chunk \o para \o <<"\n", "\n">>)

RECURSIVE M_chunk_paragraphs_drop_rest(_, _, _)
M_chunk_paragraphs_drop_rest(paragraphs, chunks, current_chunk) ==
    IF paragraphs = <<>> THEN [chunks |-> chunks, current_chunk |-> current_chunk]
    ELSE LET para == strip(Head(paragraphs))
             flushed == IF current_chunk # <<>>
                        THEN Append(chunks, strip(current_chunk)) ELSE chunks
             worded == chunk_words(split(para), flushed, <<>>)
         IN  IF para = <<>> THEN M_chunk_paragraphs_drop_rest(Tail(paragraphs), chunks, current_chunk)
             ELSE IF Len(current_chunk) + Len(para) > chunk_size
             THEN IF Len(para) > chunk_size
                  THEN M_chunk_paragraphs_drop_rest(Tail(paragraphs), worded.chunks, <<>>)
                  ELSE M_chunk_paragraphs_drop_rest(Tail(paragraphs), flushed, para \o <<"\n", "\n">>)
             ELSE M_chunk_paragraphs_drop_rest(Tail(paragraphs), chunks,
                       current_chunk \o para \o <<"\n", "\n">>)

\* the paragraph loop of lines 60-90
RECURSIVE chunk_paragraphs(_, _, _)
chunk_paragraphs(paragraphs, chunks, current_chunk) ==
    IF paragraphs = <<>> THEN [chunks |-> chunks, current_chunk |-> current_chunk]
    ELSE LET para == strip(Head(paragraphs))
             flushed == IF current_chunk # <<>>
                        THEN Append(chunks, strip(current_chunk)) ELSE chunks
             worded == chunk_words(split(para), flushed, <<>>)
         IN  IF para = <<>> THEN chunk_paragraphs(Tail(paragraphs), chunks, current_chunk)
             ELSE IF Len(current_chunk) + Len(para) > chunk_size
             THEN IF Len(para) > chunk_size
                  THEN chunk_paragraphs(Tail(paragraphs), worded.chunks, worded.current_chunk)
                  ELSE chunk_paragraphs(Tail(paragraphs), flushed, para \o <<"\n", "\n">>)
             ELSE chunk_paragraphs(Tail(paragraphs), chunks,
                       current_chunk \o para \o <<"\n", "\n">>)

\* chunk_text: the contents of the chunks, in order (every chunk carries the
\* same metadata, the source name)
chunk_text(text) ==
    LET stripped == strip(text)
        looped == chunk_paragraphs(split_paragraphs(stripped), <<>>, <<>>)
    IN  IF stripped = <<>> THEN <<>>
        ELSE IF strip(looped.current_chunk) # <<>>
        THEN Append(looped.chunks, strip(looped.current_chunk))
        ELSE looped.chunks

\* characters of a document: two letters, space, newline
DocChars == {"a", "b", " ", "\n"}
\* longest document
MaxDocLen == 7
DocTexts == UNION {[1..n -> DocChars] : n \in 0..MaxDocLen}

\* chunk_text applied to the text drawn at the start
ApplyChunkText ==
    /\ call.op = "chunk_text"
    /\ ~ret.done
    /\ ret' = [done |-> TRUE, value |-> chunk_text(call.text)]
    /\ UNCHANGED <<call, rlVars, authVars, agentVars, kbVars, turnVars, convVars, taskVars>>

----------------------------------------------------------------------------
(* VoiceService *)

\* Optional[str]: None, or a text
NoTranscript == [some |-> FALSE, text |-> <<>>]
Transcript(text) == [some |-> TRUE, text |-> text]

\* what the transcription request gives: response.text, or it raises
WhisperRaises == [ok |-> FALSE, text |-> <<>>]
WhisperText(text) == [ok |-> TRUE, text |-> text]
WhisperOutcomes == {WhisperRaises, WhisperText(<<" ">>), WhisperText(<<" ", "a", " ">>)}

\* _transcribe_audio_data: response.text.strip(); None when anything raises
_transcribe_audio_data(whisper) ==
    IF whisper.ok THEN Transcript(strip(whisper.text)) ELSE NoTranscript

\* transcribe_telegram_voice: download, then _transcribe_audio_data; None when
\* the download raises
transcribe_telegram_voice(okDownload, whisper) ==
    IF okDownload THEN _transcribe_audio_data(whisper) ELSE NoTranscript

----------------------------------------------------------------------------
(* MessageHandlers: handle_text_message, handle_voice_message *)

\* len("[voice message]")
VoiceMessageText == 15

\* one call the handler makes: what it calls, with what, and whether the
\* call returned (ok) or raised
Ev(c, what, ok) == [call |-> c, what |-> what, ok |-> ok]

Raised(evs) == \E i \in DOMAIN evs : ~evs[i].ok

\* the calls made up to and including the first one that raises
Upto(evs) ==
    IF Raised(evs)
    THEN SubSeq(evs, 1, CHOOSE i \in DOMAIN evs :
                            /\ ~evs[i].ok
                            /\ \A j \in 1..(i - 1) : evs[j].ok)
    ELSE evs

\* what _get_agent and agent.chat give: the agent could not be built, or chat
\* returns (response, location) with location possibly None; chat never raises
NoAgent == [agent |-> FALSE, location |-> FALSE]
ChatOutcomes == {NoAgent, [agent |-> TRUE, location |-> FALSE],
                 [agent |-> TRUE, location |-> TRUE]}

ChatReturn(chat) == IF chat.location THEN "text+location" ELSE "text"

\* not transcribed_text
NotText(transcribed_text) == ~transcribed_text.some \/ transcribed_text.text = <<>>

\* the send of a text turn that raises, if any
TextFails == {"none", "typing", "answer", "location"}

\* _process_message from the rate-limit verdict on (lines 148-183)
M_text_after_check_ignores_limit(is_allowed, remaining, chat, fail) ==
    LET answer == IF remaining <= LowQuota /\ remaining > 0
                  THEN "answer+warning" ELSE "answer"
        body == Upto(<<Ev("_get_agent", "", chat.agent),
                       Ev("chat", ChatReturn(chat), TRUE),
                       Ev("reply_text", answer, fail # "answer")>>
                     \o (IF chat.location
                         THEN <<Ev("send_location", "", fail # "location")>>
                         ELSE <<>>))
    IN  IF fail = "typing"
        THEN <<Ev("send_chat_action", "typing", FALSE)>>
        ELSE <<Ev("send_chat_action", "typing", TRUE)>> \o body
             \o (IF Raised(body) THEN <<Ev("reply_text", "apology", TRUE)>>
                 ELSE <<>>)

M_text_after_check_location_first(is_allowed, remaining, chat, fail) ==
    LET answer == IF remaining <= LowQuota /\ remaining > 0
                  THEN "answer+warning" ELSE "answer"
        body == Upto(<<Ev("_get_agent", "", chat.agent),
                       Ev("chat", ChatReturn(chat), TRUE)>>
                     \o (IF chat.location
                         THEN <<Ev("send_location", "", fail # "location")>>
                         ELSE <<>>)
                     \o <<Ev("reply_text", answer, fail # "answer")>>)
    IN  IF ~is_allowed THEN <<Ev("reply_text", "quota", TRUE)>>
        ELSE IF fail = "typing"
        THEN <<Ev("send_chat_action", "typing", FALSE)>>
        ELSE <<Ev("send_chat_action", "typing", TRUE)>> \o body
             \o (IF Raised(body) THEN <<Ev("reply_text", "apology", TRUE)>>
                 ELSE <<>>)

text_after_check(is_allowed, remaining, chat, fail) ==
    LET answer == IF remaining <= LowQuota /\ remaining > 0
                  THEN "answer+warning" ELSE "answer"
        body == Upto(<<Ev("_get_agent", "", chat.agent),
                       Ev("chat", ChatReturn(chat), TRUE),
                       Ev("reply_text", answer, fail # "answer")>>
                     \o (IF chat.location
                         THEN <<Ev("send_location", "", fail # "location")>>
                         ELSE <<>>))
    IN  IF ~is_allowed THEN <<Ev("reply_text", "quota", TRUE)>>
        ELSE IF fail = "typing"
        THEN <<Ev("send_chat_action", "typing", FALSE)>>
        ELSE <<Ev("send_chat_action", "typing", TRUE)>> \o body
             \o (IF Raised(body) THEN <<Ev("reply_text", "apology", TRUE)>>
                 ELSE <<>>)

\* the send of a voice turn that raises, if any
VoiceFails == {"none", "processing", "heard", "answer", "location"}

\* what a voice turn meets after the rate-limit verdict: get_file, the
\* download, the transcription request, then the agent and the sends
NoVoice == [okGetFile |-> FALSE, okDownload |-> FALSE, whisper |-> WhisperRaises,
            chat |-> NoAgent, fail |-> "none"]
VoiceOutcomes ==
    {NoVoice}
    \cup {[NoVoice EXCEPT !.okGetFile = TRUE]}
    \cup {[NoVoice EXCEPT !.okGetFile = TRUE, !.okDownload = TRUE, !.whisper = w,
                          !.fail = f] :
            w \in {WhisperRaises, WhisperText(<<" ">>)},
            f \in {"none", "processing"}}
    \cup {[okGetFile |-> TRUE, okDownload |-> TRUE,
           whisper |-> WhisperText(<<" ", "a", " ">>), chat |-> c, fail |-> f] :
            c \in ChatOutcomes, f \in VoiceFails}

\* handle_voice_message from the rate-limit verdict on (lines 75-124)
voice_after_check(is_allowed, v) ==
    LET transcribed_text == transcribe_telegram_voice(v.okDownload, v.whisper)
        start == <<Ev("get_file", "", v.okGetFile),
                   Ev("transcribe_telegram_voice", "", TRUE)>>
        rest == <<Ev("delete", "processing", TRUE),
                  Ev("reply_text", "heard", v.fail # "heard"),
                  Ev("_get_agent", "", v.chat.agent),
                  Ev("chat", ChatReturn(v.chat), TRUE),
                  Ev("reply_text", "answer", v.fail # "answer")>>
                \o (IF v.chat.location
                    THEN <<Ev("send_location", "", v.fail # "location")>>
                    ELSE <<>>)
        body == IF ~v.okGetFile THEN Upto(start)
                ELSE IF NotText(transcribed_text)
                THEN start \o <<Ev("edit_text", "transcription_failed", TRUE)>>
                ELSE Upto(start \o rest)
    IN  IF ~is_allowed THEN <<Ev("reply_text", "quota", TRUE)>>
        ELSE IF v.fail = "processing"
        THEN <<Ev("reply_text", "processing", FALSE)>>
        ELSE <<Ev("reply_text", "processing", TRUE)>> \o body
             \o (IF Raised(body) THEN <<Ev("edit_text", "error", TRUE)>>
                 ELSE <<>>)

\* no message handled yet
NoTurn == [kind |-> "none", telegram_id |-> 0, registered |-> FALSE,
           under_quota |-> FALSE, rows_before |-> 0, rows_after |-> 0,
           remaining |-> 0, transcribed_text |-> NoTranscript, events |-> <<>>]

\* the record of a handled message: who sent it, whether a users row and
\* quota were there when it arrived, the usage_logs rows before and after,
\* what check_and_log and the transcription returned, and the calls the
\* handler made, in order
Turn(kind, telegram_id, remaining, transcribed_text, events) ==
    [kind |-> kind, telegram_id |-> telegram_id,
     registered |-> HasRecord(users, telegram_id),
     under_quota |-> Cardinality(TodayRows(usage_logs, now, telegram_id))
                        < rate_limit_per_day,
     rows_before |-> Len(usage_logs), rows_after |-> Len(usage_logs'),
     remaining |-> remaining,
     transcribed_text |-> IF \E i \in DOMAIN events :
                                 events[i].call = "transcribe_telegram_voice"
                          THEN transcribed_text ELSE NoTranscript,
     events |-> events]

NotRegistered ==
    <<Ev("is_authenticated", "false", TRUE), Ev("reply_text", "not_registered", TRUE)>>

\* is_authenticated returned True; then check_and_log and, inside it,
\* log_usage when the user is not limited
Checked ==
    <<Ev("is_authenticated", "true", TRUE)>>
    \o (IF rl_last'.allowed
        THEN <<Ev("check_and_log", "allowed", TRUE),
               Ev("log_usage", IF rl_last'.appended THEN "row" ELSE "none", TRUE)>>
        ELSE <<Ev("check_and_log", "rejected", TRUE)>>)

\* handle_text_message: _process_message(update, context, update.message.text)
HandleTextMessage(telegram_id, message_text) ==
    /\ \E okAuth \in BOOLEAN :
         /\ IsAuthenticatedStep(telegram_id, okAuth)
         /\ IF ~auth_last'.success
            THEN /\ UNCHANGED <<usage_logs, rl_last, allowedToday, storeFaults>>
                 /\ turn' = Turn("text", telegram_id, 0, NoTranscript, NotRegistered)
            ELSE \E okCount \in BOOLEAN, okInsert \in BOOLEAN, okRemain \in BOOLEAN :
                   /\ CheckAndLogStep(telegram_id, message_text,
                                      okCount, okInsert, okRemain)
                   /\ IF ~rl_last'.allowed
                      THEN turn' = Turn("text", telegram_id, rl_last'.remaining, NoTranscript,
                                        Checked \o text_after_check(
                                            FALSE, rl_last'.remaining,
                                            NoAgent, "none"))
                      ELSE \E chat \in ChatOutcomes, fail \in TextFails :
                             turn' = Turn("text", telegram_id, rl_last'.remaining, NoTranscript,
                                          Checked \o text_after_check(
                                              TRUE, rl_last'.remaining,
                                              chat, fail))
    /\ UNCHANGED <<now, users, fnVars, agentVars, kbVars, convVars, taskVars>>

\* handle_voice_message
HandleVoiceMessage(telegram_id) ==
    /\ \E okAuth \in BOOLEAN :
         /\ IsAuthenticatedStep(telegram_id, okAuth)
         /\ IF ~auth_last'.success
            THEN /\ UNCHANGED <<usage_logs, rl_last, allowedToday, storeFaults>>
                 /\ turn' = Turn("voice", telegram_id, 0, NoTranscript, NotRegistered)
            ELSE \E okCount \in BOOLEAN, okInsert \in BOOLEAN, okRemain \in BOOLEAN :
                   /\ CheckAndLogStep(telegram_id, VoiceMessageText,
                                      okCount, okInsert, okRemain)
                   /\ IF ~rl_last'.allowed
                      THEN turn' = Turn("voice", telegram_id, rl_last'.remaining,
                                        NoTranscript,
                                        Checked \o voice_after_check(FALSE, NoVoice))
                      ELSE \E v \in VoiceOutcomes :
                             turn' = Turn("voice", telegram_id, rl_last'.remaining,
                                          transcribe_telegram_voice(
                                              v.okDownload, v.whisper),
                                          Checked \o voice_after_check(TRUE, v))
    /\ UNCHANGED <<now, users, fnVars, agentVars, kbVars, convVars, taskVars>>

----------------------------------------------------------------------------
(* ConversationRepository *)

\* settings.conversation_memory_size (config.py: default 5, any value in 1..50)
conversation_memory_size == 1

\* messages written in one run; their contents are 1, 2, ... in the order written
MaxMessages == 4

\* messages one save_messages call may add to the history it was given
MaxBatch == 3

\* ConversationMessage(role=role, content=content)
ConversationMessage(role, content) == [role |-> role, content |-> content]

\* the n messages written next
NewMessages(n) ==
    [i \in 1..n |-> ConversationMessage(IF (conv.next + i) % 2 = 0 THEN "user"
                                        ELSE "assistant", conv.next + i - 1)]

\* get_messages: response.data[0]["messages"]; [] when there is no row or the
\* query raises
get_messages(store, telegram_id, ok) == IF ok THEN store[telegram_id] ELSE <<>>

\* save_messages: messages[-conversation_memory_size * 2:] is upserted as the
\* user's row; False, and nothing written, when the upsert raises
save_messages(store, telegram_id, messages, ok) ==
    IF ok
    THEN [store |-> [store EXCEPT ![telegram_id] =
                        LastN(messages, conversation_memory_size * 2)],
          saved |-> TRUE]
    ELSE [store |-> store, saved |-> FALSE]

\* add_message: get_messages, append, save_messages
add_message(store, telegram_id, message, okGet, okSave) ==
    save_messages(store, telegram_id,
                  Append(get_messages(store, telegram_id, okGet), message), okSave)

\* table "conversations" empty; nothing appended
NoConv ==
    [store |-> [u \in TelegramIds |-> <<>>],
     appended |-> [u \in TelegramIds |-> <<>>],
     next |-> 1, faults |-> 0,
     last |-> [op |-> "none", telegram_id |-> 0, saved |-> FALSE]]

\* a call of add_message; appended records the message when the call
\* reported it saved
AddMessage(telegram_id, okGet, okSave) ==
    LET message == NewMessages(1)[1]
        r == add_message(conv.store, telegram_id, message, okGet, okSave)
    IN  /\ conv.next <= MaxMessages
        /\ conv.faults + Fails(okGet) + Fails(okSave) <= MaxFaults
        /\ conv' = [store |-> r.store,
                    appended |-> IF r.saved
                                 THEN [conv.appended EXCEPT ![telegram_id] =
                                          Append(@, message)]
                                 ELSE conv.appended,
                    next |-> conv.next + 1,
                    faults |-> conv.faults + Fails(okGet) + Fails(okSave),
                    last |-> [op |-> "add_message", telegram_id |-> telegram_id,
                              saved |-> r.saved]]
        /\ UNCHANGED <<rlVars, authVars, fnVars, agentVars, kbVars, turnVars,
                       taskVars>>

\* a call of save_messages by a caller that hands over the stored history
\* with n new messages after it
SaveMessages(telegram_id, n, ok) ==
    LET new == NewMessages(n)
        r == save_messages(conv.store, telegram_id,
                           conv.store[telegram_id] \o new, ok)
    IN  /\ conv.next + n - 1 <= MaxMessages
        /\ conv.faults + Fails(ok) <= MaxFaults
        /\ conv' = [store |-> r.store,
                    appended |-> IF r.saved
                                 THEN [conv.appended EXCEPT ![telegram_id] = @ \o new]
                                 ELSE conv.appended,
                    next |-> conv.next + n,
                    faults |-> conv.faults + Fails(ok),
                    last |-> [op |-> "save_messages", telegram_id |-> telegram_id,
                              saved |-> r.saved]]
        /\ UNCHANGED <<rlVars, authVars, fnVars, agentVars, kbVars, turnVars,
                       taskVars>>

----------------------------------------------------------------------------
(* Calls in progress at the same time *)

\* calls that may be in progress at once
NumTasks == 2

TaskIds == 1..NumTasks

\* no call in progress
IdleTask ==
    [pc |-> "idle", telegram_id |-> 0, student_code |-> <<>>,
     message |-> ConversationMessage("", 0), messages |-> <<>>,
     count |-> 0, result |-> FALSE]

\* check_and_log in progress: the call is received, then makes its store
\* calls one at a time, other calls' store calls in between
RlBegin(t, telegram_id) ==
    /\ tasks[t].pc = "idle"
    /\ tasks' = [tasks EXCEPT ![t] = [IdleTask EXCEPT !.pc = "is_rate_limited",
                                                      !.telegram_id = telegram_id]]
    /\ UNCHANGED <<rlVars, authVars, fnVars, agentVars, kbVars, turnVars, convVars>>

\* is_rate_limited (line 33): the count query; the rejection when limited
RlCount(t) ==
    LET telegram_id == tasks[t].telegram_id
        limited == is_rate_limited(usage_logs, now, telegram_id, TRUE)
    IN  /\ tasks[t].pc = "is_rate_limited"
        /\ tasks' = [tasks EXCEPT ![t] = IF limited THEN IdleTask
                                          ELSE [@ EXCEPT !.pc = "log_usage"]]
        /\ rl_last' = IF limited
                      THEN [op |-> "check_and_log", telegram_id |-> telegram_id,
                            allowed |-> FALSE, remaining |-> 0, used |-> 0,
                            appended |-> FALSE,
                            allowedBefore |-> allowedToday[telegram_id]]
                      ELSE rl_last
        /\ UNCHANGED <<now, usage_logs, allowedToday, storeFaults>>
        /\ UNCHANGED <<authVars, fnVars, agentVars, kbVars, turnVars, convVars>>

\* log_usage (lines 44-49): the insert
RlInsert(t, message_text) ==
    /\ tasks[t].pc = "log_usage"
    /\ Len(usage_logs) < MaxLogs
    /\ usage_logs' = log_usage(usage_logs, now,
                               UsageLogCreate(tasks[t].telegram_id, message_text),
                               TRUE)
    /\ tasks' = [tasks EXCEPT ![t].pc = "get_remaining_messages"]
    /\ UNCHANGED <<now, rl_last, allowedToday, storeFaults>>
    /\ UNCHANGED <<authVars, fnVars, agentVars, kbVars, turnVars, convVars>>

\* get_remaining_messages (line 52) and the return of (True, "", remaining)
RlRemaining(t) ==
    LET telegram_id == tasks[t].telegram_id
    IN  /\ tasks[t].pc = "get_remaining_messages"
        /\ rl_last' = [op |-> "check_and_log", telegram_id |-> telegram_id,
                       allowed |-> TRUE,
                       remaining |-> get_remaining_messages(
                                         usage_logs, now, telegram_id, TRUE),
                       used |-> 0, appended |-> TRUE,
                       allowedBefore |-> allowedToday[telegram_id]]
        /\ allowedToday' = [allowedToday EXCEPT ![telegram_id] = @ + 1]
        /\ tasks' = [tasks EXCEPT ![t] = IdleTask]
        /\ UNCHANGED <<now, usage_logs, storeFaults>>
        /\ UNCHANGED <<authVars, fnVars, agentVars, kbVars, turnVars, convVars>>

\* the codes concurrent register_user calls are made with: a valid one and
\* one with a letter
RaceCodes == {Rep("1", MinCodeLen)} \cup LetterCodes

\* register_user in progress: the call is received, then makes its store
\* calls one at a time, other calls' store calls in between; a call that
\* returned success keeps that (result) until the task takes the next call
RegBegin(t, telegram_id, student_code) ==
    /\ tasks[t].pc \in {"idle", "returned"}
    /\ tasks' = [tasks EXCEPT ![t] = [IdleTask EXCEPT !.pc = "get_by_telegram_id",
                                                      !.telegram_id = telegram_id,
                                                      !.student_code = student_code]]
    /\ UNCHANGED <<rlVars, authVars, fnVars, agentVars, kbVars, turnVars, convVars>>

\* get_by_telegram_id (lines 41-43)
RegGetId(t) ==
    LET existing_user == get_by_telegram_id(users, tasks[t].telegram_id, TRUE)
    IN  /\ tasks[t].pc = "get_by_telegram_id"
        /\ tasks' = [tasks EXCEPT ![t] =
                        IF existing_user # NoUser THEN IdleTask
                        ELSE [@ EXCEPT !.pc = "get_by_student_code"]]
        /\ UNCHANGED <<rlVars, authVars, fnVars, agentVars, kbVars, turnVars, convVars>>

\* get_by_student_code, then _validate_student_code (lines 46-53)
RegGetCode(t) ==
    LET existing_student == get_by_student_code(users, tasks[t].student_code, TRUE)
        validation == _validate_student_code(tasks[t].student_code)
    IN  /\ tasks[t].pc = "get_by_student_code"
        /\ tasks' = [tasks EXCEPT ![t] =
                        IF existing_student # NoUser \/ ~validation.is_valid
                        THEN IdleTask
                        ELSE [@ EXCEPT !.pc = "create"]]
        /\ UNCHANGED <<rlVars, authVars, fnVars, agentVars, kbVars, turnVars, convVars>>

\* create and the return of (True, ...) (lines 56-66)
RegCreate(t) ==
    LET created == create(users, UserCreate(tasks[t].telegram_id,
                                            tasks[t].student_code), TRUE)
    IN  /\ tasks[t].pc = "create"
        /\ Len(created.users) <= MaxUserRows
        /\ users' = created.users
        /\ tasks' = [tasks EXCEPT ![t] = [@ EXCEPT !.pc = "returned",
                                                   !.result = created.user # NoUser]]
        /\ UNCHANGED <<auth_last, authFaults>>
        /\ UNCHANGED <<rlVars, fnVars, agentVars, kbVars, turnVars, convVars>>

\* add_message in progress: the call is received (appended records the
\* receipt order), then makes its two store calls, other calls' store calls
\* in between
ConvBegin(t, telegram_id) ==
    LET message == NewMessages(1)[1]
    IN  /\ tasks[t].pc = "idle"
        /\ conv.next <= MaxMessages
        /\ tasks' = [tasks EXCEPT ![t] = [IdleTask EXCEPT !.pc = "get_messages",
                                                          !.telegram_id = telegram_id,
                                                          !.message = message]]
        /\ conv' = [conv EXCEPT !.next = @ + 1,
                                !.appended[telegram_id] = Append(@, message)]
        /\ UNCHANGED <<rlVars, authVars, fnVars, agentVars, kbVars, turnVars>>

\* get_messages, and the append to the list it returned (lines 188-189)
ConvGet(t) ==
    /\ tasks[t].pc = "get_messages"
    /\ tasks' = [tasks EXCEPT ![t] =
                    [@ EXCEPT !.pc = "save_messages",
                              !.messages = Append(get_messages(conv.store,
                                                      tasks[t].telegram_id, TRUE),
                                                  tasks[t].message)]]
    /\ UNCHANGED <<rlVars, authVars, fnVars, agentVars, kbVars, turnVars, convVars>>

\* save_messages and the return of True (line 190)
ConvSave(t) ==
    LET r == save_messages(conv.store, tasks[t].telegram_id, tasks[t].messages, TRUE)
    IN  /\ tasks[t].pc = "save_messages"
        /\ conv' = [conv EXCEPT !.store = r.store,
                                !.last = [op |-> "add_message",
                                          telegram_id |-> tasks[t].telegram_id,
                                          saved |-> r.saved]]
        /\ tasks' = [tasks EXCEPT ![t] = IdleTask]
        /\ UNCHANGED <<rlVars, authVars, fnVars, agentVars, kbVars, turnVars>>

----------------------------------------------------------------------------
(* Specifications *)

InitRateLimiter ==
    /\ now = 0
    /\ usage_logs = <<>>
    /\ rl_last = [op |-> "none", telegram_id |-> 0, allowed |-> FALSE,
                  remaining |-> 0, used |-> 0, appended |-> FALSE,
                  allowedBefore |-> 0]
    /\ allowedToday = [u \in TelegramIds |-> 0]
    /\ storeFaults = 0

InitAuth ==
    /\ users = <<>>
    /\ auth_last = [op |-> "none", telegram_id |-> 0, student_code |-> <<>>,
                    success |-> FALSE, message |-> "", hadRecord |-> FALSE,
                    codeOwners |-> {}, created |-> FALSE]
    /\ authFaults = 0

\* no pure function under check
NoCall == [op |-> "none"]
NoRet == [done |-> FALSE, value |-> 0]

InitFn == call = NoCall /\ ret = NoRet

InitAgent == agent = AgentIdle /\ outbox = <<>>

InitKb == kb = KbEmpty

InitTurn == turn = NoTurn

InitConv == conv = NoConv

InitTasks == tasks = [t \in TaskIds |-> IdleTask]

Init ==
    /\ InitRateLimiter /\ InitAuth /\ InitFn /\ InitAgent /\ InitKb /\ InitTurn
    /\ InitConv /\ InitTasks

NextRateLimiter ==
    \/ \E u \in TelegramIds, text \in TextInputs, a \in BOOLEAN, b \in BOOLEAN,
          c \in BOOLEAN : CheckAndLog(u, text, a, b, c)
    \/ \E u \in TelegramIds, a \in BOOLEAN : GetStatus(u, a)
    \/ Tick

SpecRateLimiter == Init /\ [][NextRateLimiter]_vars

NextAuth ==
    \/ \E u \in TelegramIds, code \in CodeInputs, a \in BOOLEAN, b \in BOOLEAN,
          c \in BOOLEAN : RegisterUser(u, code, a, b, c)
    \/ \E u \in TelegramIds, a \in BOOLEAN : IsAuthenticated(u, a)
    \/ \E u \in TelegramIds, a \in BOOLEAN : GetUser(u, a)
    \/ \E text \in GateTexts : ParseLoginCommand(text)

SpecAuth == Init /\ [][NextAuth]_vars

\* parse_login_command as a function of its text
InitParseLogin ==
    /\ InitRateLimiter /\ InitAuth /\ InitAgent /\ InitKb /\ InitTurn
    /\ InitConv /\ InitTasks
    /\ call \in {[op |-> "parse_login_command", text |-> t] : t \in LoginTexts}
    /\ ret = NoRet

SpecParseLogin == InitParseLogin /\ [][ApplyParseLoginCommand]_vars

\* _extract_coordinates as a function of its text
InitExtractCoordinates ==
    /\ InitRateLimiter /\ InitAuth /\ InitAgent /\ InitKb /\ InitTurn
    /\ InitConv /\ InitTasks
    /\ call \in {[op |-> "_extract_coordinates", text |-> t] : t \in CoordinateTexts}
    /\ ret = NoRet

SpecExtractCoordinates == InitExtractCoordinates /\ [][ApplyExtractCoordinates]_vars

NextKnowledge ==
    \/ \E q \in Topics, limit \in {1, SearchLimit}, e \in EmbedOutcomes,
          a \in BOOLEAN : KbSearch(q, limit, e, a)
    \/ \E c \in Topics, e \in EmbedOutcomes, a \in BOOLEAN : KbAddDocument(c, e, a)
    \/ \E a \in BOOLEAN : KbClearAll(a)

SpecKnowledge == Init /\ [][NextKnowledge]_vars

NextAgent ==
    \/ \E m \in UserMessages, h \in Histories : ChatStart(m, h)
    \/ \E response \in FirstResponses : FirstCall(response)
    \/ \E results \in SearchResults : ToolCall(results)
    \/ \E response \in SecondResponses : SecondCall(response)
    \/ \E remaining \in {0, LowQuota, LowQuota + 1}, a \in BOOLEAN, b \in BOOLEAN :
          Deliver(remaining, a, b)

SpecAgent == Init /\ [][NextAgent]_vars

\* format_context as a function of its results and max_length
InitFormatContext ==
    /\ InitRateLimiter /\ InitAuth /\ InitAgent /\ InitKb /\ InitTurn
    /\ InitConv /\ InitTasks
    /\ call \in {[op |-> "format_context", results |-> r, max_length |-> m] :
                    r \in ResultLists, m \in MaxLengths}
    /\ ret = NoRet

SpecFormatContext == InitFormatContext /\ [][ApplyFormatContext]_vars

\* chunk_text as a function of its text
InitChunkText ==
    /\ InitRateLimiter /\ InitAuth /\ InitAgent /\ InitKb /\ InitTurn
    /\ InitConv /\ InitTasks
    /\ call \in {[op |-> "chunk_text", text |-> t] : t \in DocTexts}
    /\ ret = NoRet

SpecChunkText == InitChunkText /\ [][ApplyChunkText]_vars

\* the message handlers, with chat identifier 1 registered and the others not
InitOrchestrator ==
    /\ InitRateLimiter /\ InitFn /\ InitAgent /\ InitKb /\ InitTurn
    /\ InitConv /\ InitTasks
    /\ users = <<UserCreate(1, Rep("1", MinCodeLen))>>
    /\ auth_last = [op |-> "none", telegram_id |-> 0, student_code |-> <<>>,
                    success |-> FALSE, message |-> "", hadRecord |-> FALSE,
                    codeOwners |-> {}, created |-> FALSE]
    /\ authFaults = 0

NextOrchestrator ==
    \/ \E u \in TelegramIds, text \in TextInputs : HandleTextMessage(u, text)
    \/ \E u \in TelegramIds : HandleVoiceMessage(u)

SpecOrchestrator == InitOrchestrator /\ [][NextOrchestrator]_vars


NextConversation ==
    \/ \E u \in TelegramIds, a \in BOOLEAN, b \in BOOLEAN : AddMessage(u, a, b)
    \/ \E u \in TelegramIds, n \in 1..MaxBatch, a \in BOOLEAN : SaveMessages(u, n, a)

SpecConversation == Init /\ [][NextConversation]_vars


\* check_and_log calls in progress at the same time, within one UTC day
NextRateLimiterRace ==
    \/ \E t \in TaskIds, u \in TelegramIds : RlBegin(t, u)
    \/ \E t \in TaskIds : RlCount(t)
    \/ \E t \in TaskIds, text \in TextInputs : RlInsert(t, text)
    \/ \E t \in TaskIds : RlRemaining(t)

SpecRateLimiterRace == Init /\ [][NextRateLimiterRace]_vars


\* register_user calls in progress at the same time
NextAuthRace ==
    \/ \E t \in TaskIds, u \in TelegramIds, code \in RaceCodes : RegBegin(t, u, code)
    \/ \E t \in TaskIds : RegGetId(t)
    \/ \E t \in TaskIds : RegGetCode(t)
    \/ \E t \in TaskIds : RegCreate(t)

SpecAuthRace == Init /\ [][NextAuthRace]_vars


\* add_message calls in progress at the same time
NextConversationRace ==
    \/ \E t \in TaskIds, u \in TelegramIds : ConvBegin(t, u)
    \/ \E t \in TaskIds : ConvGet(t)
    \/ \E t \in TaskIds : ConvSave(t)

SpecConversationRace == Init /\ [][NextConversationRace]_vars


Next == NextRateLimiter \/ NextAuth \/ NextKnowledge \/ NextAgent

Spec == Init /\ [][Next]_vars

----------------------------------------------------------------------------
(* Rate limiter: properties *)

DayOf(t) == t \div DayLen

\* rows of a user stamped on UTC day d
CountOnDay(telegram_id, d) ==
    Cardinality({i \in DOMAIN usage_logs :
                    /\ usage_logs[i].telegram_id = telegram_id
                    /\ DayOf(usage_logs[i].created_at) = d})

IsCheckAndLog == rl_last.op = "check_and_log"

\* C1: with calls made one after another and no store call raising, a check_and_log
\* call made when exactly rate_limit_per_day calls of that user were allowed earlier
\* on the same UTC day returns allowed = False with remaining = 0.
C1_QuotaPlusOneRejected ==
    (IsCheckAndLog /\ storeFaults = 0
        /\ rl_last.allowedBefore = rate_limit_per_day)
    => (~rl_last.allowed /\ rl_last.remaining = 0)

C1_Witness ==
    /\ IsCheckAndLog
    /\ storeFaults = 0
    /\ rl_last.allowedBefore = rate_limit_per_day
    /\ ~rl_last.allowed

\* C2: a check_and_log call appends a usage row if and only if it returns
\* allowed = True.
C2_LoggedIffAllowed ==
    IsCheckAndLog => (rl_last.appended <=> rl_last.allowed)

\* C2 when no store call has raised
C2_NoFault_LoggedIffAllowed ==
    (IsCheckAndLog /\ storeFaults = 0) => (rl_last.appended <=> rl_last.allowed)

\* C3: a check_and_log call by one user leaves every other user's today-count,
\* remaining value and limited/allowed verdict as they were; the today-count is
\* the number of the user's rows stamped on the current UTC day, so a user whose
\* allowed calls today are below the quota is allowed whatever rows earlier days
\* left (store calls not raising).
C3_FrameAndDayBoundary ==
    /\ [][\A v \in TelegramIds :
            (rl_last'.op = "check_and_log" /\ rl_last'.telegram_id # v)
            => /\ get_today_count(usage_logs', now', v, TRUE)
                    = get_today_count(usage_logs, now, v, TRUE)
               /\ get_remaining_messages(usage_logs', now', v, TRUE)
                    = get_remaining_messages(usage_logs, now, v, TRUE)
               /\ is_rate_limited(usage_logs', now', v, TRUE)
                    = is_rate_limited(usage_logs, now, v, TRUE)]_vars
    /\ [](\A v \in TelegramIds :
            get_today_count(usage_logs, now, v, TRUE) = CountOnDay(v, DayOf(now)))
    /\ []((IsCheckAndLog /\ storeFaults = 0
              /\ rl_last.allowedBefore < rate_limit_per_day)
          => rl_last.allowed)

\* a user who used the whole quota on the day before is allowed today
C3_Witness ==
    /\ IsCheckAndLog
    /\ storeFaults = 0
    /\ rl_last.allowed
    /\ DayOf(now) >= 1
    /\ CountOnDay(rl_last.telegram_id, DayOf(now) - 1) >= rate_limit_per_day

\* C4: the remaining value returned by get_status and by check_and_log is never
\* negative, also when the user has more than rate_limit_per_day rows today.
C4_RemainingNonNegative ==
    rl_last.op \in {"get_status", "check_and_log"} => rl_last.remaining >= 0

C4_Witness ==
    /\ rl_last.op = "get_status"
    /\ rl_last.used > rate_limit_per_day
    /\ rl_last.remaining = 0

\* C5: an allowed check_and_log call has appended its row, returns
\* remaining = max(0, quota - newCount) with newCount the user's count for today
\* including that row, and the k-th allowed call of the day returns quota - k.
C5_RemainingAfterAppend ==
    (IsCheckAndLog /\ rl_last.allowed)
    => /\ rl_last.appended
       /\ rl_last.remaining =
            Max(0, rate_limit_per_day
                     - get_today_count(usage_logs, now, rl_last.telegram_id, TRUE))
       /\ rl_last.remaining = rate_limit_per_day - allowedToday[rl_last.telegram_id]

\* C5 when no store call has raised
C5_NoFault_RemainingAfterAppend ==
    storeFaults = 0 => C5_RemainingAfterAppend

----------------------------------------------------------------------------
(* Auth gate: properties *)

IsRegisterUser == auth_last.op = "register_user"

BadFormatTexts == {MsgEnterCode, MsgNotNumeric, MsgTooShort, MsgTooLong}

\* the outcomes of register_user and the texts of each
OutcomeTexts ==
    [already_registered |-> {MsgAlreadyRegistered},
     code_taken         |-> {MsgCodeTaken},
     bad_format         |-> BadFormatTexts,
     success            |-> {MsgSuccess},
     registration_error |-> {MsgRegistrationError}]

OutcomesOf(message) == {k \in DOMAIN OutcomeTexts : message \in OutcomeTexts[k]}

\* the call got past format validation
PassedFormat == auth_last.message \in {MsgSuccess, MsgRegistrationError}

OnlyDigits(code) == \A i \in DOMAIN code : code[i] \in Digits

\* C6: after any sequence of register_user calls made one at a time, the users
\* table holds at most one row per chat identifier and at most one per code.
C6_UniqueChatAndCode ==
    \A i, j \in DOMAIN users :
        i # j => /\ users[i].telegram_id # users[j].telegram_id
                 /\ users[i].student_code # users[j].student_code

\* C6 when no store call has raised
C6_NoFault_UniqueChatAndCode == authFaults = 0 => C6_UniqueChatAndCode

\* C7: register_user for a chat identifier that already has a row fails with the
\* already-registered text, whatever the code.
C7_SecondRegistrationRejected ==
    (IsRegisterUser /\ auth_last.hadRecord)
    => (~auth_last.success /\ ~auth_last.created
        /\ auth_last.message = MsgAlreadyRegistered)

\* C7 when no store call has raised
C7_NoFault_SecondRegistrationRejected ==
    authFaults = 0 => C7_SecondRegistrationRejected

\* C8: register_user by a chat identifier with no row, with a code that belongs
\* to another chat identifier, fails with the code-taken text and creates no row.
C8_TakenCodeRejected ==
    (IsRegisterUser /\ ~auth_last.hadRecord
        /\ auth_last.codeOwners \ {auth_last.telegram_id} # {})
    => (~auth_last.success /\ ~auth_last.created
        /\ auth_last.message = MsgCodeTaken)

\* C8 when no store call has raised
C8_NoFault_TakenCodeRejected == authFaults = 0 => C8_TakenCodeRejected

\* C9 as stated: for a chat identifier with no row and a code nobody holds,
\* register_user gets past format validation iff the code is digits only with
\* 5 <= length <= 15; otherwise it returns a format text and creates no row.
C9_FormatOnRawCode ==
    (IsRegisterUser /\ ~auth_last.hadRecord /\ auth_last.codeOwners = {})
    => LET code == auth_last.student_code
           wellFormed == /\ OnlyDigits(code)
                         /\ Len(code) >= MinCodeLen
                         /\ Len(code) <= MaxCodeLen
       IN  /\ PassedFormat <=> wellFormed
           /\ ~wellFormed => (auth_last.message \in BadFormatTexts
                              /\ ~auth_last.created)

\* C9 as amended: the same with the code taken after its leading and trailing
\* whitespace is removed (the digits-only test and both length limits apply to
\* the stripped code).
C9_FormatOnStrippedCode ==
    (IsRegisterUser /\ ~auth_last.hadRecord /\ auth_last.codeOwners = {})
    => LET code == strip(auth_last.student_code)
           wellFormed == /\ OnlyDigits(code)
                         /\ Len(code) >= MinCodeLen
                         /\ Len(code) <= MaxCodeLen
       IN  /\ PassedFormat <=> wellFormed
           /\ ~wellFormed => (auth_last.message \in BadFormatTexts
                              /\ ~auth_last.created)

\* a code of 15 digits behind a blank (16 characters) is accepted
C9_Witness ==
    /\ IsRegisterUser
    /\ ~auth_last.hadRecord
    /\ auth_last.codeOwners = {}
    /\ auth_last.student_code # strip(auth_last.student_code)
    /\ Len(strip(auth_last.student_code)) = MaxCodeLen
    /\ auth_last.success
    /\ auth_last.created

\* C10 as stated: every register_user call ends in exactly one of the four
\* outcomes already-registered, code-taken, bad-format, success.
C10_FourOutcomes ==
    IsRegisterUser
    => /\ Cardinality(OutcomesOf(auth_last.message)) = 1
       /\ OutcomesOf(auth_last.message)
            \subseteq {"already_registered", "code_taken", "bad_format", "success"}

\* C10 as amended: every register_user call ends in exactly one of five outcomes
\* with pairwise different texts: already-registered, code-taken, bad-format,
\* success, and registration-error (the insert failed).  Each is returned only
\* for its own cause, and success = True goes with the success text alone.
C10_FiveOutcomes ==
    IsRegisterUser
    => /\ Cardinality(OutcomesOf(auth_last.message)) = 1
       /\ auth_last.success <=> auth_last.message = MsgSuccess
       /\ auth_last.message = MsgAlreadyRegistered => auth_last.hadRecord
       /\ auth_last.message = MsgCodeTaken => auth_last.codeOwners # {}
       /\ auth_last.message \in BadFormatTexts
            => LET code == strip(auth_last.student_code)
               IN  ~(OnlyDigits(code) /\ Len(code) >= MinCodeLen
                                      /\ Len(code) <= MaxCodeLen)
       /\ auth_last.message = MsgSuccess => auth_last.created
       /\ auth_last.message = MsgRegistrationError => ~auth_last.created

\* the fifth outcome: the insert raised
C10_Witness ==
    /\ IsRegisterUser
    /\ auth_last.message = MsgRegistrationError
    /\ ~auth_last.success
    /\ ~auth_last.created

----------------------------------------------------------------------------
(* Auth gate: persistence of records, parsing of the login command *)

\* every row of the users table is still there, unchanged, after the step
RowsKept == \A i \in DOMAIN users : i \in DOMAIN users' /\ users'[i] = users[i]

\* C11: once a User record exists for a chat identifier, no auth gate
\* operation (is_authenticated, get_user, register_user with any arguments,
\* parse_login_command) changes or removes it, and is_authenticated for that
\* identifier answers true whenever its read of the store goes through.
C11_RecordPersists ==
    [][/\ RowsKept
       /\ auth_last'.op = "is_authenticated"
          /\ authFaults' = authFaults
          /\ HasRecord(users, auth_last'.telegram_id)
          => auth_last'.success]_vars

\* is_authenticated answered true for a user whose record has outlived a later
\* registration attempt of somebody else
C11_Witness ==
    /\ auth_last.op = "is_authenticated"
    /\ auth_last.success
    /\ Len(users) = 2
    /\ users[1].telegram_id = auth_last.telegram_id

\* where the tokens of a text start: a non-whitespace character at the start
\* of the text or after a whitespace character
TokenStarts(s) ==
    {i \in DOMAIN s : s[i] \notin Whitespace /\ (i = 1 \/ s[i - 1] \in Whitespace)}

\* the last character of the token that starts at i
TokenEnd(s, i) ==
    CHOOSE j \in i..Len(s) :
        /\ \A k \in i..j : s[k] \notin Whitespace
        /\ j = Len(s) \/ s[j + 1] \in Whitespace

SecondToken(s) ==
    LET i == CHOOSE a \in TokenStarts(s) :
                 Cardinality({b \in TokenStarts(s) : b < a}) = 1
    IN  SubSeq(s, i, TokenEnd(s, i))

IsParseLogin == call.op = "parse_login_command" /\ ret.done

\* C12: parse_login_command returns the second whitespace-separated token of
\* the text, unchanged, when the text has at least two tokens (whatever
\* follows the second token is ignored), and None when the text is empty or
\* has fewer than two tokens.
C12_SecondToken ==
    IsParseLogin =>
        IF Cardinality(TokenStarts(call.text)) >= 2
        THEN ret.value = SomeCode(SecondToken(call.text))
        ELSE ret.value = NoCode

\* a text of three tokens was parsed and the second came back
C12_Witness ==
    /\ IsParseLogin
    /\ Cardinality(TokenStarts(call.text)) >= 3
    /\ ret.value.some
    /\ ret.value.value = SecondToken(call.text)

----------------------------------------------------------------------------
(* Coordinate extraction *)

\* the numbers of a text that stand under a label: label, no colon up to a
\* colon, nothing but whitespace, then the number
LabelledNumbers(text, label) ==
    {text[n].v : n \in {m \in DOMAIN text :
        /\ text[m].k = "num"
        /\ \E i \in 1..m, c \in 1..m :
              /\ i < c /\ c < m
              /\ text[i].k = label
              /\ text[c].k = ":"
              /\ \A j \in (i + 1)..(c - 1) : text[j].k # ":"
              /\ \A j \in (c + 1)..(m - 1) : text[j].k = " "}}

InLatRange(v) == LatMin * 10 <= v /\ v <= LatMax * 10
InLngRange(v) == LngMin * 10 <= v /\ v <= LngMax * 10

IsExtract == call.op = "_extract_coordinates" /\ ret.done

\* C18: _extract_coordinates returns a pair only when a latitude-labelled
\* and a longitude-labelled number are both present with
\* 25 <= latitude <= 40 and 44 <= longitude <= 64; when a label is missing or
\* the numbers under it lie outside its range it returns None; and a text with
\* one number under each label, both within the bounds (the bounds
\* themselves included), yields that pair.
C18_PairOnlyInsideBox ==
    IsExtract =>
        LET lats == LabelledNumbers(call.text, "lat")
            lngs == LabelledNumbers(call.text, "lng")
        IN  /\ ret.value.some =>
                /\ ret.value.latitude \in lats /\ InLatRange(ret.value.latitude)
                /\ ret.value.longitude \in lngs /\ InLngRange(ret.value.longitude)
            /\ (\A v \in lats : ~InLatRange(v)) \/ (\A v \in lngs : ~InLngRange(v))
                  => ret.value = NoLocation
            /\ \A a \in lats, b \in lngs :
                  lats = {a} /\ lngs = {b} /\ InLatRange(a) /\ InLngRange(b)
                     => ret.value = Location(a, b)

\* a pair on the edge of the box came back: latitude 25.0, longitude 64.0
C18_Witness ==
    /\ IsExtract
    /\ ret.value = Location(LatMin * 10, LngMax * 10)

\* latitude 10.0 with both labels present gave None
C18_WitnessOutside ==
    /\ IsExtract
    /\ LabelledNumbers(call.text, "lat") = {100}
    /\ LabelledNumbers(call.text, "lng") # {}
    /\ ret.value = NoLocation

----------------------------------------------------------------------------
(* Knowledge service *)

\* the chunks of the table that score at least the threshold for a query
ChunksAbove(query) ==
    {i \in DOMAIN kb.chunks :
        similarity(EmbeddingOf(query), kb.chunks[i].embedding) >= SimilarityThreshold}

\* C19: knowledge search never raises to its caller; when the embedding call
\* fails or returns nothing, or the store query fails, or no chunk scores at
\* or above the threshold, it returns the empty sequence; and when the
\* embedding fails the store is not queried at all.
C19_SearchFailsEmpty ==
    kb.last.op = "search" =>
        /\ ~kb.last.raised
        /\ \/ kb.last.outcome # "ok"
           \/ ~kb.last.ok
           \/ ChunksAbove(kb.last.text) = {}
           => kb.last.value = <<>>
        /\ kb.last.outcome # "ok" => ~kb.last.queried

\* a search whose embedding call raised, over a table holding a chunk that
\* would have matched
C19_Witness ==
    /\ kb.last.op = "search"
    /\ kb.last.outcome = "raise"
    /\ ChunksAbove(kb.last.text) # {}
    /\ kb.last.value = <<>>
    /\ ~kb.last.queried

\* a search that went through and found the chunks above the threshold
C19_WitnessFound ==
    /\ kb.last.op = "search"
    /\ kb.last.queried
    /\ Len(kb.last.value) = 2

\* C20: add_document never raises to its caller; it returns true only if the
\* embedding succeeded and the store insert succeeded; when the embedding
\* fails it returns false and inserts nothing (the table is as it was).
C20_AddDocument ==
    kb.last.op = "add_document" =>
        /\ ~kb.last.raised
        /\ kb.last.value => kb.last.outcome = "ok" /\ kb.last.ok /\ kb.last.inserted
        /\ kb.last.outcome # "ok" => ~kb.last.value /\ ~kb.last.inserted

\* an add_document whose embedding call raised while the store was up:
\* false, nothing inserted into a table that already holds a chunk
C20_Witness ==
    /\ kb.last.op = "add_document"
    /\ kb.last.outcome = "raise"
    /\ kb.last.ok
    /\ ~kb.last.value
    /\ Len(kb.chunks) = 1

----------------------------------------------------------------------------
(* Conversation agent *)

\* chat has returned
ChatDone == agent.pc \in {"done", "delivered"}

\* the first model call returned a message
FirstResponded == ChatDone /\ agent.failed # "first_call"

\* model calls made by the chat call so far
Invocations == Len(agent.invocations)

RequestsLocation ==
    \E i \in DOMAIN agent.tool_calls : agent.tool_calls[i].name = "send_location"

\* C13 as stated: a chat call makes exactly one model invocation when the
\* first response requests no tool calls and exactly two when it requests at
\* least one, the second with no tools offered.
C13_OneOrTwoInvocations ==
    FirstResponded =>
        /\ agent.tool_calls = <<>> => Invocations = 1
        /\ agent.tool_calls # <<>> =>
              Invocations = 2 /\ ~agent.invocations[2].tools

\* C13, amended: no chat call makes more than two model invocations or
\* dispatches a requested tool call twice; the first is made with the tools
\* offered and the second without; a chat call whose first response requests
\* no tool calls makes exactly one; one whose first response requests tool
\* calls makes exactly two when every call dispatches without error, and
\* exactly one when a tool call's arguments are malformed or lack the key.
C13_AtMostTwoInvocations ==
    /\ Invocations <= 2
    /\ agent.next <= Len(agent.tool_calls) + 1
    /\ Invocations >= 1 => agent.invocations[1].tools
    /\ Invocations = 2 => ~agent.invocations[2].tools
    /\ FirstResponded =>
          /\ agent.tool_calls = <<>> => Invocations = 1
          /\ agent.tool_calls # <<>> /\ agent.failed # "tool_dispatch" => Invocations = 2
          /\ agent.failed = "tool_dispatch" => Invocations = 1

\* a chat call ended by a tool call that failed in dispatch, after one model
\* call and one tool call dispatched
C13_Witness ==
    /\ ChatDone
    /\ agent.failed = "tool_dispatch"
    /\ agent.next = 2
    /\ Invocations = 1

\* two model calls were made
C13_WitnessTwo == ChatDone /\ agent.failed = "no" /\ Invocations = 2

\* C14: any error raised while chat runs (a model call failing, malformed
\* tool-call arguments, a missing argument key) is caught: chat returns the
\* apology text with no Location and raises nothing to its caller, also when
\* an earlier send_location call of the turn had found coordinates.
C14_ErrorsBecomeApology ==
    ChatDone =>
        /\ ~agent.escaped
        /\ agent.failed # "no" =>
              agent.result = [text |-> Apology, location |-> NoLocation]

\* the second model call failed after a send_location call had found
\* coordinates
C14_Witness ==
    /\ ChatDone
    /\ agent.failed = "second_call"
    /\ agent.location_to_send.some
    /\ agent.result.location = NoLocation

\* a later tool call failed after a send_location call had found coordinates
C14_WitnessDispatch ==
    /\ ChatDone
    /\ agent.failed = "tool_dispatch"
    /\ agent.location_to_send.some

LocationsSent == {i \in DOMAIN outbox : outbox[i].kind = "location"}

\* C15: if the first response holds no send_location call (no tool calls at
\* all, or only other calls), chat returns no Location and the handler sends
\* no location to the chat.
C15_NoLocationUnlessRequested ==
    ChatDone /\ ~RequestsLocation =>
        /\ agent.result.location = NoLocation
        /\ LocationsSent = {}

\* a delivered turn whose only tool call was a search_knowledge that returned
\* a chunk with coordinates in it
C15_Witness ==
    /\ agent.pc = "delivered"
    /\ agent.failed = "no"
    /\ ~RequestsLocation
    /\ Len(agent.tool_results) = 1
    /\ agent.tool_results[1].content.text = "formatted results"
    /\ _get_location(agent.tool_results[1].content.results) # NoLocation
    /\ Len(outbox) = 1

\* C16: when several send_location calls occur in one turn, chat returns at
\* most one Location, and a Location it returns is the result of the last
\* send_location call processed in request order; a turn that ends without
\* error returns exactly what that last call found (nothing, if it found
\* nothing).
C16_LastLocationWins ==
    ChatDone =>
        /\ agent.result.location.some =>
              /\ agent.located # <<>>
              /\ agent.result.location = agent.located[Len(agent.located)]
        /\ agent.failed = "no" /\ agent.located # <<>> =>
              agent.result.location = agent.located[Len(agent.located)]
        /\ Cardinality(LocationsSent) <= 1

\* two send_location calls found two different pairs and the second came back
C16_Witness ==
    /\ ChatDone
    /\ Len(agent.located) = 2
    /\ agent.located[1].some
    /\ agent.located[2].some
    /\ agent.located[1] # agent.located[2]
    /\ agent.result.location = agent.located[2]

\* C17: the message list of the first model invocation is the system prompt,
\* then the last min(3, n) entries of the n-entry history in their order, each
\* content cut to its first 300 characters, then the user message: between 2
\* and 5 entries, the user message last.
C17_FirstPrompt ==
    Invocations >= 1 =>
        LET m == agent.invocations[1].messages
            n == Len(agent.history)
            k == IF n < 3 THEN n ELSE 3
        IN  /\ Len(m) = k + 2
            /\ Len(m) \in 2..5
            /\ m[1] = [role |-> "system", content |-> SystemPrompt]
            /\ m[Len(m)] = [role |-> "user", content |-> agent.user_message]
            /\ \A j \in 1..k :
                  LET given == agent.history[n - k + j].content
                  IN  IF given = NoContent THEN m[1 + j].content = EmptyText
                      ELSE /\ m[1 + j].content.text = given.text
                           /\ m[1 + j].content.len =
                                 IF given.len > 300 THEN 300 ELSE given.len

\* a history of four entries: the first is dropped, the last is cut
C17_Witness ==
    /\ Invocations >= 1
    /\ Len(agent.history) = 4
    /\ Len(agent.invocations[1].messages) = 5
    /\ agent.invocations[1].messages[4].content.len = 300
    /\ agent.history[4].content.len = 301

----------------------------------------------------------------------------
(* format_context *)

IsFormatContext == call.op = "format_context" /\ ret.done

\* C21: for every list of results and every max_length (a length, so not
\* negative), the string format_context returns, source prefixes and
\* separators included, is at most max_length plus the three characters of
\* one ellipsis long.
C21_LengthBound ==
    IsFormatContext => StrLen(ret.value) <= call.max_length + 3

\* the bound is met: a first result longer than max_length, cut to it
C21_Witness ==
    /\ IsFormatContext
    /\ call.max_length > 0
    /\ StrLen(ret.value) = call.max_length + 3

\* the length the loop has accounted for before result i: every earlier
\* result's formatted length plus the allowance of 10
RECURSIVE Accounted(_, _)
Accounted(results, i) ==
    IF i <= 1 THEN 0
    ELSE Accounted(results, i - 1) + StrLen(labelled(results[i - 1])) + 10

\* the results whose inclusion would push the accounted length past max_length
Overflowing(results, max_length) ==
    {i \in DOMAIN results :
        Accounted(results, i) + StrLen(labelled(results[i])) > max_length}

FirstOverflow(results, max_length) ==
    CHOOSE i \in Overflowing(results, max_length) :
        \A j \in Overflowing(results, max_length) : i <= j

WholeParts(results, n) == [j \in 1..n |-> labelled(results[j])]

CutPart(results, max_length, k) ==
    StrPrefix(labelled(results[k]), max_length - Accounted(results, k))
    \o <<Ellipsis>>

\* C22 as stated: the results come out in their order; the first whose
\* inclusion would push the cumulative length past max_length is included
\* cut short and ended with an ellipsis; every result after it is dropped.
C22_CutItemIncluded ==
    IsFormatContext =>
        LET rs == call.results
            m  == call.max_length
        IN  IF Overflowing(rs, m) = {}
            THEN ret.value = Join(WholeParts(rs, Len(rs)))
            ELSE LET k == FirstOverflow(rs, m)
                 IN  ret.value = Join(Append(WholeParts(rs, k - 1),
                                             CutPart(rs, m, k)))

\* C22, amended: the results come out in their order, each counted as its
\* formatted length plus 10; the first whose inclusion would push that count
\* past max_length is included cut to the characters that remain and ended
\* with an ellipsis when more than 100 characters remain, and is dropped
\* when 100 or fewer remain; every result after it is dropped.
C22_CutItemIncludedIfRoom ==
    IsFormatContext =>
        LET rs == call.results
            m  == call.max_length
        IN  IF Overflowing(rs, m) = {}
            THEN ret.value = Join(WholeParts(rs, Len(rs)))
            ELSE LET k == FirstOverflow(rs, m)
                 IN  IF m - Accounted(rs, k) > 100
                     THEN ret.value = Join(Append(WholeParts(rs, k - 1),
                                                  CutPart(rs, m, k)))
                     ELSE ret.value = Join(WholeParts(rs, k - 1))

\* a whole result, then one that overflows with 100 or fewer characters left
\* and is dropped
C22_Witness ==
    /\ IsFormatContext
    /\ Len(call.results) >= 2
    /\ Overflowing(call.results, call.max_length) # {}
    /\ FirstOverflow(call.results, call.max_length) = 2
    /\ ret.value = labelled(call.results[1])

\* a whole result, then a cut one, then one that is dropped
C22_WitnessCut ==
    /\ IsFormatContext
    /\ Len(call.results) = 3
    /\ Overflowing(call.results, call.max_length) # {}
    /\ FirstOverflow(call.results, call.max_length) = 2
    /\ ret.value = Join(<<labelled(call.results[1]),
                          CutPart(call.results, call.max_length, 2)>>)

----------------------------------------------------------------------------
(* Chunker *)

IsChunkText == call.op = "chunk_text" /\ ret.done

\* the words of a text: its maximal runs of non-whitespace, in order
WordsOf(s) ==
    LET starts == TokenStarts(s)
        nth(k) == CHOOSE i \in starts : Cardinality({j \in starts : j < i}) = k - 1
    IN  [k \in 1..Cardinality(starts) |-> SubSeq(s, nth(k), TokenEnd(s, nth(k)))]

RECURSIVE WordsOfAll(_)
WordsOfAll(chunks) ==
    IF chunks = <<>> THEN <<>> ELSE WordsOf(Head(chunks)) \o WordsOfAll(Tail(chunks))

\* C23: every chunk chunk_text produces is non-empty and at most chunk_size
\* characters long, except a chunk that is one single word longer than
\* chunk_size; an empty or whitespace-only text produces no chunks.
C23_ChunksWithinBudget ==
    IsChunkText =>
        /\ \A i \in DOMAIN ret.value :
              LET chunk == ret.value[i]
              IN  /\ chunk # <<>>
                  /\ \/ Len(chunk) <= chunk_size
                     \/ \A j \in DOMAIN chunk : chunk[j] \notin Whitespace
        /\ (\A j \in DOMAIN call.text : call.text[j] \in Whitespace) => ret.value = <<>>

\* a paragraph longer than chunk_size was split word by word: one chunk is a
\* single over-long word, another is within chunk_size
C23_Witness ==
    /\ IsChunkText
    /\ \E i, j \in DOMAIN ret.value :
          /\ Len(ret.value[i]) > chunk_size
          /\ Len(ret.value[j]) <= chunk_size

----------------------------------------------------------------------------
(* Message handlers: properties *)

Handled == turn.kind # "none"

\* the positions in the turn's trace of the calls of c
Calls(c) == {i \in DOMAIN turn.events : turn.events[i].call = c}

\* the positions of the calls of c made with what
CallsWith(c, what) == {i \in Calls(c) : turn.events[i].what = what}

\* C25: a text or voice message from a chat identifier with no users row gets
\* the not-registered prompt and nothing else: check_and_log is not called,
\* usage_logs keeps its rows, and neither the agent nor the transcription
\* is called
C25_UnregisteredStops ==
    (Handled /\ ~turn.registered)
        => /\ Len(turn.events) = 2
           /\ turn.events[1].call = "is_authenticated"
           /\ turn.events[2] = Ev("reply_text", "not_registered", TRUE)
           /\ Calls("check_and_log") = {} /\ Calls("log_usage") = {}
           /\ Calls("_get_agent") = {} /\ Calls("chat") = {}
           /\ Calls("transcribe_telegram_voice") = {}
           /\ turn.rows_after = turn.rows_before
           /\ (rl_last.op = "check_and_log" => rl_last.telegram_id # turn.telegram_id)

\* an unregistered chat has sent a voice message after the registered one
\* used the rate limiter
C25_Witness ==
    /\ turn.kind = "voice" /\ ~turn.registered
    /\ CallsWith("reply_text", "not_registered") # {}
    /\ rl_last.op = "check_and_log"

\* C26: the agent is called for a message only after is_authenticated
\* returned True and then check_and_log returned allowed for that message;
\* when check_and_log rejects, the handler replies with the quota message and
\* stops, with no agent call and no transcription
C26_AgentAfterGates ==
    /\ \A i \in Calls("chat") \cup Calls("_get_agent") :
          \E j \in CallsWith("is_authenticated", "true"),
             k \in CallsWith("check_and_log", "allowed") : j < k /\ k < i
    /\ \A k \in CallsWith("check_and_log", "rejected") :
          /\ Len(turn.events) = k + 1
          /\ turn.events[k + 1] = Ev("reply_text", "quota", TRUE)
          /\ Calls("chat") = {} /\ Calls("_get_agent") = {}
          /\ Calls("get_file") = {} /\ Calls("transcribe_telegram_voice") = {}

\* a voice message of the registered user is rejected by the rate limiter
C26_Witness ==
    /\ turn.kind = "voice"
    /\ CallsWith("check_and_log", "rejected") # {}
    /\ CallsWith("reply_text", "quota") # {}

\* a text message of the registered user reaches the agent
C26_WitnessAgent ==
    /\ turn.kind = "text"
    /\ Calls("chat") # {}

\* the usage row of the turn is written, once, before any agent call, and is
\* in the log when the turn ends
OneRowBeforeAgent ==
    /\ turn.rows_after = turn.rows_before + 1
    /\ Cardinality(CallsWith("log_usage", "row")) = 1
    /\ \A i \in Calls("chat") \cup Calls("_get_agent") :
          \E k \in CallsWith("log_usage", "row") : k < i

\* C27: each message of a registered user who is under quota appends exactly
\* one usage row, before the agent is called, and the row stays when the agent
\* call or a send then fails
C27_OneRowPerMessage ==
    (Handled /\ turn.registered /\ turn.under_quota) => OneRowBeforeAgent

\* the same while no store call has raised
C27_NoFault_OneRowPerMessage ==
    (Handled /\ turn.registered /\ turn.under_quota
       /\ storeFaults = 0 /\ authFaults = 0) => OneRowBeforeAgent

\* the row stays although the agent could not be built or a send raised
C27_NoFault_Witness ==
    /\ Handled /\ turn.registered /\ turn.under_quota
    /\ storeFaults = 0 /\ authFaults = 0
    /\ OneRowBeforeAgent
    /\ Raised(turn.events)

\* the positions of the replies that carry the agent's answer
Answers == CallsWith("reply_text", "answer") \cup CallsWith("reply_text", "answer+warning")

\* the answer carries the warning exactly when 0 < remaining <= 5
WarnedIffLow ==
    \A i \in Answers :
        turn.events[i].what = "answer+warning"
            <=> (turn.remaining > 0 /\ turn.remaining <= LowQuota)

\* C28: for every message that reaches the agent, text or transcribed voice,
\* the answer carries the low-quota warning exactly when check_and_log
\* returned a remaining value with 0 < remaining <= 5
C28_WarningIffLow == Handled => WarnedIffLow

\* the same for text messages only
C28_Text_WarningIffLow == turn.kind = "text" => WarnedIffLow

\* a text answer with the warning
C28_Text_Witness ==
    /\ turn.kind = "text"
    /\ CallsWith("reply_text", "answer+warning") # {}
    /\ turn.remaining > 0

\* a text answer without it: the last message of the day
C28_Text_WitnessNone ==
    /\ turn.kind = "text"
    /\ CallsWith("reply_text", "answer") # {}
    /\ turn.remaining = 0

\* agent.chat returned a Location for the message
LocationReturned == CallsWith("chat", "text+location") # {}

\* the reply with the agent's answer went through
AnswerSent == \E j \in Answers : turn.events[j].ok

\* at most one send_location, and only after the answer went through
OneLocationAfterAnswer ==
    /\ Cardinality(Calls("send_location")) <= 1
    /\ \A i \in Calls("send_location") :
          \E j \in Answers : j < i /\ turn.events[j].ok

\* C29 as stated: send_location is called if and only if the agent returned
\* a Location for the message, at most once, and after the text answer
C29_LocationIffReturned ==
    Handled => /\ Calls("send_location") # {} <=> LocationReturned
               /\ OneLocationAfterAnswer

\* C29: send_location is called if and only if the agent returned a Location
\* for the message and the reply with the text answer did not raise; at most
\* once, and after the text answer
C29_LocationIffReturnedAndAnswered ==
    Handled => /\ Calls("send_location") # {} <=> (LocationReturned /\ AnswerSent)
               /\ OneLocationAfterAnswer

\* the agent returned a Location, the reply with the answer raised, and the
\* handler apologised without sending the location
C29_Witness ==
    /\ Handled /\ LocationReturned /\ ~AnswerSent
    /\ Calls("send_location") = {}
    /\ \E j \in Answers : ~turn.events[j].ok

\* a location sent after the answer, for a voice message
C29_WitnessSent ==
    /\ turn.kind = "voice" /\ LocationReturned /\ AnswerSent
    /\ Calls("send_location") # {}

\* the voice message was fetched and gave no text: get_file raised, or the
\* transcription returned None or an empty text
TranscriptionFailed ==
    /\ turn.kind = "voice"
    /\ Calls("get_file") # {}
    /\ \/ \E i \in Calls("get_file") : ~turn.events[i].ok
       \/ Calls("transcribe_telegram_voice") # {} /\ NotText(turn.transcribed_text)

\* the processing message was edited into an apology and no agent was called
ApologyOnly ==
    /\ Calls("edit_text") # {}
    /\ turn.events[Len(turn.events)].call = "edit_text"
    /\ Calls("_get_agent") = {} /\ Calls("chat") = {}

\* C30: a voice message from a registered, under-quota user whose
\* transcription fails or gives no text is answered with an apology, the
\* agent is not called, and exactly one usage row was appended for it
C30_TranscriptionFailure ==
    (TranscriptionFailed /\ turn.registered /\ turn.under_quota)
        => ApologyOnly /\ turn.rows_after = turn.rows_before + 1

\* the same while no store call has raised
C30_NoFault_TranscriptionFailure ==
    (TranscriptionFailed /\ turn.registered /\ turn.under_quota
       /\ storeFaults = 0 /\ authFaults = 0)
        => ApologyOnly /\ turn.rows_after = turn.rows_before + 1

\* the apology does not depend on the row: it is sent on every failed
\* transcription
C30_ApologyOnly == TranscriptionFailed => ApologyOnly

\* a transcription that returned the empty text, apologised for, one row
C30_NoFault_Witness ==
    /\ TranscriptionFailed /\ turn.registered /\ turn.under_quota
    /\ storeFaults = 0 /\ authFaults = 0
    /\ turn.transcribed_text = Transcript(<<>>)
    /\ CallsWith("edit_text", "transcription_failed") # {}
    /\ turn.rows_after = turn.rows_before + 1

----------------------------------------------------------------------------
(* Conversation history: properties *)

\* what the store should hold for a user: the most recent
\* 2 x conversation_memory_size of everything appended, in append order
Recent(telegram_id) == LastN(conv.appended[telegram_id], conversation_memory_size * 2)

\* C31: after any sequence of add_message / save_messages calls made one at a
\* time, a user's stored conversation has at most 2 x conversation_memory_size
\* messages and is the most recent ones of everything appended, in append order
C31_RecentTurnsKept ==
    \A u \in TelegramIds :
        /\ Len(conv.store[u]) <= conversation_memory_size * 2
        /\ conv.store[u] = Recent(u)

\* the same while no store call has raised
C31_NoFault_RecentTurnsKept == conv.faults = 0 => C31_RecentTurnsKept

\* the size bound alone holds with store calls raising too
C31_Bounded ==
    \A u \in TelegramIds : Len(conv.store[u]) <= conversation_memory_size * 2

\* the oldest messages have been dropped, with no store call raising
C31_NoFault_Witness ==
    /\ conv.faults = 0
    /\ \E u \in TelegramIds :
          /\ Len(conv.appended[u]) > conversation_memory_size * 2
          /\ conv.store[u] = Recent(u)
          /\ conv.last.op = "add_message"

----------------------------------------------------------------------------
(* Calls in progress at the same time: properties *)

\* C32: however check_and_log calls of one user interleave within a UTC day,
\* the calls answered allowed=True and the user's usage rows of that day
\* never number more than rate_limit_per_day
C32_QuotaUnderRace ==
    \A u \in TelegramIds :
        /\ allowedToday[u] <= rate_limit_per_day
        /\ CountOnDay(u, DayOf(now)) <= rate_limit_per_day

\* two calls that have returned success for the same chat identifier or the
\* same code
TwoSucceeded ==
    \E t1 \in TaskIds, t2 \in TaskIds :
        /\ t1 # t2
        /\ tasks[t1].pc = "returned" /\ tasks[t1].result
        /\ tasks[t2].pc = "returned" /\ tasks[t2].result
        /\ \/ tasks[t1].telegram_id = tasks[t2].telegram_id
           \/ tasks[t1].student_code = tasks[t2].student_code

\* C33: however register_user calls interleave (for one chat identifier, or
\* for one code from different chat identifiers), at most one of them succeeds
\* and the users table has at most one row per chat identifier and per code
C33_UniqueUnderRace ==
    /\ ~TwoSucceeded
    /\ \A i, j \in DOMAIN users :
          i # j => /\ users[i].telegram_id # users[j].telegram_id
                   /\ users[i].student_code # users[j].student_code

\* every add_message call has returned
Quiescent == \A t \in TaskIds : tasks[t].pc = "idle"

\* s is in t, in order, possibly with other elements in between
RECURSIVE IsSubsequence(_, _)
IsSubsequence(s, t) ==
    IF s = <<>> THEN TRUE
    ELSE IF t = <<>> THEN FALSE
    ELSE IF Head(s) = Head(t) THEN IsSubsequence(Tail(s), Tail(t))
    ELSE IsSubsequence(s, Tail(t))

\* C34: however add_message calls of one user interleave, no saved turn is
\* lost: once the calls have returned, every turn they reported saved that
\* the size bound has not evicted is in the stored history, in the order the
\* calls were received
C34_NoLostTurn ==
    Quiescent => \A u \in TelegramIds : IsSubsequence(Recent(u), conv.store[u])

\* all calls returned and two turns of one user are both in the stored history
C34_OneAtATime_Witness ==
    /\ Quiescent
    /\ \E u \in TelegramIds :
          /\ Len(conv.appended[u]) >= 2
          /\ conv.store[u] = Recent(u)

----------------------------------------------------------------------------
(* Agent: tool results and locations *)

\* the message list of the second model call holds, after the list of the
\* first call, the assistant's request and one tool result per requested call,
\* in request order, each with the id of its call
RequestThenResults ==
    LET first == agent.invocations[1].messages
        second == agent.invocations[2].messages
        n == Len(first)
        calls == agent.tool_calls
    IN  /\ Len(second) = n + 1 + Len(calls)
        /\ SubSeq(second, 1, n) = first
        /\ second[n + 1].role = "assistant"
        /\ second[n + 1].tool_calls = calls
        /\ \A i \in DOMAIN calls :
              /\ second[n + 1 + i].role = "tool"
              /\ second[n + 1 + i].tool_call_id = calls[i].id

KnownTools == {"search_knowledge", "send_location"}

\* C35: before the second model invocation the message list holds the
\* assistant's tool-call request followed by exactly one tool result for each
\* requested tool call, in request order and with the id of its call,
\* whatever tool names the model used
C35_OneResultPerCall == Len(agent.invocations) >= 2 => RequestThenResults

\* the same when the model used only the names of the two tools offered
C35_KnownTools_OneResultPerCall ==
    (/\ Len(agent.invocations) >= 2
     /\ \A i \in DOMAIN agent.tool_calls : agent.tool_calls[i].name \in KnownTools)
        => RequestThenResults

\* two known tool calls answered in request order
C35_KnownTools_Witness ==
    /\ Len(agent.invocations) >= 2
    /\ Len(agent.tool_calls) = 2
    /\ agent.tool_calls[1].name = "send_location"
    /\ agent.tool_calls[2].name = "search_knowledge"
    /\ RequestThenResults

\* the position in results of the first result whose content gives an
\* accepted coordinate pair, 0 when there is none
FirstAccepted(results) ==
    LET accepted == {i \in DOMAIN results :
                        _extract_coordinates(results[i].content).some}
    IN  IF accepted = {} THEN 0
        ELSE CHOOSE i \in accepted : \A j \in accepted : i <= j

\* the tool_calls position of the k-th send_location call dispatched
SendLocationCall(k) ==
    CHOOSE i \in DOMAIN agent.tool_calls :
        /\ agent.tool_calls[i].name = "send_location"
        /\ Cardinality({j \in 1..i : agent.tool_calls[j].name = "send_location"}) = k

\* the content of the tool result appended for the call with this id
ToolContent(id) ==
    LET j == CHOOSE j \in DOMAIN agent.tool_results :
                 agent.tool_results[j].tool_call_id = id
    IN  agent.tool_results[j].content

\* C36: a send_location call yields the coordinates of the first result, in
\* result order, whose content gives an accepted coordinate pair, skipping
\* results with no pair or a pair outside the box; it yields none, with the
\* no-coordinates sentinel as tool content, only when no result gives one
C36_FirstAcceptedResult ==
    \A k \in DOMAIN agent.searched :
        LET results == agent.searched[k]
            first == FirstAccepted(results)
            id == agent.tool_calls[SendLocationCall(k)].id
        IN  /\ \E j \in DOMAIN agent.tool_results :
                  agent.tool_results[j].tool_call_id = id
            /\ IF first = 0
               THEN /\ agent.located[k] = NoLocation
                    /\ ToolContent(id).text = "no coordinates"
               ELSE /\ agent.located[k] =
                          _extract_coordinates(results[first].content)
                    /\ agent.located[k].some
                    /\ ToolContent(id).text = "location json"
                    /\ ToolContent(id).location = agent.located[k]

\* two send_location calls in one turn: the first skips a result outside the
\* box and takes the second result, the second finds no pair at all
C36_Witness ==
    /\ Len(agent.searched) = 2
    /\ Len(agent.searched[1]) = 2
    /\ FirstAccepted(agent.searched[1]) = 2
    /\ agent.located[1].some
    /\ agent.searched[2] # <<>>
    /\ FirstAccepted(agent.searched[2]) = 0
    /\ ~agent.located[2].some

\* C37: when chat completes without error and some send_location call of the
\* turn found an accepted coordinate pair, the returned Location is not none
C37_FoundLocationKept ==
    (/\ ChatDone
     /\ agent.failed = "no"
     /\ \E k \in DOMAIN agent.located : agent.located[k].some)
        => agent.result.location.some

\* the same when the last send_location call of the turn is one that found a pair
C37_LastFound_LocationKept ==
    (/\ ChatDone
     /\ agent.failed = "no"
     /\ agent.located # <<>>
     /\ agent.located[Len(agent.located)].some)
        => agent.result.location.some

\* a completed turn whose second send_location call found a pair after the
\* first found none
C37_LastFound_Witness ==
    /\ ChatDone
    /\ agent.failed = "no"
    /\ Len(agent.located) = 2
    /\ ~agent.located[1].some
    /\ agent.located[2].some
    /\ agent.result.location = agent.located[2]

----------------------------------------------------------------------------
(* AuthService: what a register_user call leaves in the table *)

C38_WitnessCreated ==
    /\ IsRegisterUser
    /\ auth_last.success
    /\ auth_last.created
    /\ Len(users) = 2

----------------------------------------------------------------------------
(* RateLimiter: the quota when the count cannot be read *)

\* the rows of today the user of the last check_and_log call had when the call
\* was made: the rows of today now, less the row the call appended
RowsBeforeCall ==
    CountOnDay(rl_last.telegram_id, DayOf(now))
        - (IF rl_last.appended THEN 1 ELSE 0)

\* C39: check_and_log returns allowed only if the user's actual number of
\* usage rows for today is below the quota, also when a store read of the
\* count fails: a user who has reached the quota is never let through
C39_AllowedOnlyBelowQuota ==
    (IsCheckAndLog /\ rl_last.allowed) => RowsBeforeCall < rate_limit_per_day

\* C39 when no store call has raised
C39_NoFault_AllowedOnlyBelowQuota ==
    storeFaults = 0 => C39_AllowedOnlyBelowQuota

\* the last call the quota admits, no store call raising
C39_NoFault_Witness ==
    /\ IsCheckAndLog
    /\ storeFaults = 0
    /\ rl_last.allowed
    /\ rl_last.appended
    /\ RowsBeforeCall = rate_limit_per_day - 1

====
